---- MODULE Spec2Model ----
(***************************************************************************)
(* Collaboration engine of pad.ws: the scene reconciler (CanvasWorker),     *)
(* the Pad domain object with its write-through cache and store, and the   *)
(* per-connection forwarders of the WebSocket hub.                         *)
(*                                                                         *)
(* One pad and one server process are modelled.  Redis (cache record,      *)
(* durable stream, pointer channel) and the database row are shared state; *)
(* every await on them is a step boundary, the code between two awaits is  *)
(* one atomic step of the task that runs it.                               *)
(***************************************************************************)
EXTENDS Integers, Sequences, FiniteSets, TLC

(***************************************************************************)
(* Bounds of the model.                                                    *)
(***************************************************************************)
MaxVersion == 2
MaxNonce == 2
MaxEvents == 2      \* events appended to the pad's stream
MaxStopEvents == 1  \* the same, in the runs with a stop_processing_pad
                    \* and in the runs under fairness
MaxTasks == 2       \* asyncio tasks of one kind alive at a time
MaxStops == 1       \* stop_processing_pad calls, per process
MaxCalls == 1       \* Pad.get_by_id calls of request handlers, per process
MaxExpiries == 1    \* expiries of the pad's cache entry
MaxCrashes == 1     \* process restarts
MaxHubEvents == 3   \* entries of the stream in the runs of the hub
MaxPointers == 1    \* pointer updates published
MaxOrderEvents == 2 \* frames published in the runs on the order of delivery
MaxAppEvents == 2   \* appState updates published
MaxFileEvents == 2  \* scene updates published under SpecFiles
MaxWriteEvents == 2 \* scene updates published under SpecWrite
MaxIgnoreEvents == 2 \* events published under SpecIgnore
MaxFaultEvents == 2 \* scene updates published under SpecFault
MaxReadFaults == 1  \* xread failures of one consumer task
MaxSaveEvents == 1  \* scene updates published under SpecSaveFail
MaxSaveFaults == 1  \* PadStore.save failures of one periodic-save task
MaxDrainEvents == 2 \* events appended in the runs with a graceful stop
                    \* and no periodic save
MaxPeerCalls == 1   \* Pad.get_by_id calls in the other server process
MaxPayload == 2     \* elements in one client payload under SpecMerge
MaxPointerEvents == 2 \* pointer updates published in the runs on the
                    \* pointer channel

(***************************************************************************)
(* Python values.                                                          *)
(***************************************************************************)
\* None, for the optional strings of the program (ids, indexes, worker ids).
PyNone == "<None>"

\* dict.get(key, default)
Get(d, k, default) == IF k \in DOMAIN d THEN d[k] ELSE default

\* The result of dict.get(id) when the key is absent: no server element.
NoElem == [absent |-> TRUE]

\* Truthiness of an optional string: None and "" are falsy.
Truthy(s) == s # PyNone /\ s # ""

(***************************************************************************)
(* Elements.  An element is a dict with the keys id, version,              *)
(* versionNonce and index, any of the last three possibly missing.         *)
(***************************************************************************)
Versions == 1..MaxVersion
Nonces == 1..MaxNonce
Indexes == {"a0", "a1"}

\* The element the clients fight over, in every shape a client can send it.
E1Elements ==
    [id : {"e1"}, version : Versions, versionNonce : Nonces, index : Indexes]
    \cup [id : {"e1"}, versionNonce : Nonces, index : Indexes]
    \cup [id : {"e1"}, version : Versions, index : Indexes]

\* A bystander element, placed before, at or after it by its index.
E2Elements ==
    [id : {"e2"}, version : {1}, versionNonce : {1}, index : Indexes]
    \cup [id : {"e2"}, version : {1}, versionNonce : {1}]

Elements == E1Elements \cup E2Elements

\* Python's order on the strings the model uses (code point order).
StrRank(s) ==
    CASE s = "" -> 0
      [] s = "a0" -> 1
      [] s = "a1" -> 2
      [] s = "e1" -> 3
      [] s = "e2" -> 4
      [] OTHER -> 5

StrLess(s, t) == StrRank(s) < StrRank(t)

(***************************************************************************)
(* CanvasWorker._should_discard_client_element                             *)
(***************************************************************************)
should_discard_nonce_flipped(server_element, client_element) ==
    IF server_element = NoElem
    THEN FALSE
    ELSE LET server_version == Get(server_element, "version", 0)
             client_version == Get(client_element, "version", 0)
             server_nonce == Get(server_element, "versionNonce", 0)
             client_nonce == Get(client_element, "versionNonce", 0)
         IN  IF client_version < server_version THEN TRUE
             ELSE IF client_version > server_version THEN FALSE
             ELSE client_nonce < server_nonce

should_discard_no_tiebreak(server_element, client_element) ==
    IF server_element = NoElem
    THEN FALSE
    ELSE Get(client_element, "version", 0) < Get(server_element, "version", 0)

should_discard_client_element(server_element, client_element) ==
    IF server_element = NoElem
    THEN FALSE
    ELSE LET server_version == Get(server_element, "version", 0)
             client_version == Get(client_element, "version", 0)
             server_nonce == Get(server_element, "versionNonce", 0)
             client_nonce == Get(client_element, "versionNonce", 0)
         IN  IF client_version < server_version THEN TRUE
             ELSE IF client_version > server_version THEN FALSE
             ELSE client_nonce > server_nonce

(***************************************************************************)
(* CanvasWorker._order_by_fractional_index: sorted() is stable, the key is *)
(* the pair (index or "", id) compared lexicographically.                  *)
(***************************************************************************)
\* (get_sort_key_by_id: a key that leaves the index out.)
get_sort_key_by_id(elem) == <<"", Get(elem, "id", "")>>

get_sort_key(elem) ==
    LET index == Get(elem, "index", PyNone)
    IN  IF ~Truthy(index)
        THEN <<"", Get(elem, "id", "")>>
        ELSE <<index, Get(elem, "id", "")>>

KeyLess(k1, k2) ==
    \/ StrLess(k1[1], k2[1])
    \/ k1[1] = k2[1] /\ StrLess(k1[2], k2[2])

RECURSIVE InsertSorted(_, _)
InsertSorted(sorted, elem) ==
    IF sorted = <<>>
    THEN <<elem>>
    ELSE IF KeyLess(get_sort_key(elem), get_sort_key(Head(sorted)))
         THEN <<elem>> \o sorted
         ELSE <<Head(sorted)>> \o InsertSorted(Tail(sorted), elem)

RECURSIVE order_by_fractional_index(_)
order_by_fractional_index(elements) ==
    IF elements = <<>>
    THEN <<>>
    ELSE InsertSorted(
             order_by_fractional_index(SubSeq(elements, 1, Len(elements) - 1)),
             elements[Len(elements)])

(***************************************************************************)
(* CanvasWorker._reconcile_elements                                        *)
(***************************************************************************)
\* server_elements_map: the last element of each id ...
RECURSIVE MapGet(_, _)
MapGet(server_elements, elem_id) ==
    IF server_elements = <<>>
    THEN NoElem
    ELSE IF server_elements[Len(server_elements)].id = elem_id
         THEN server_elements[Len(server_elements)]
         ELSE MapGet(SubSeq(server_elements, 1, Len(server_elements) - 1), elem_id)

\* ... iterated in the order the ids first appear.
RECURSIVE MapKeys(_, _)
MapKeys(server_elements, seen) ==
    IF server_elements = <<>>
    THEN <<>>
    ELSE IF Head(server_elements).id \in seen
         THEN MapKeys(Tail(server_elements), seen)
         ELSE <<Head(server_elements).id>>
              \o MapKeys(Tail(server_elements), seen \cup {Head(server_elements).id})

\* The loop over client_elements; acc = [elements, processed_ids, has_changes].
\* (ClientLoop_every: a loop that skips the elements without id only, so
\* that every occurrence of an id is considered.)
RECURSIVE ClientLoop_every(_, _, _)
ClientLoop_every(server_elements, client_elements, acc) ==
    IF client_elements = <<>>
    THEN acc
    ELSE LET client_elem == Head(client_elements)
             elem_id == Get(client_elem, "id", PyNone)
             server_elem == MapGet(server_elements, elem_id)
         IN  IF ~Truthy(elem_id)
             THEN ClientLoop_every(server_elements, Tail(client_elements), acc)
             ELSE IF should_discard_client_element(server_elem, client_elem)
                  THEN ClientLoop_every(server_elements, Tail(client_elements),
                           [elements |-> Append(acc.elements, server_elem),
                            processed_ids |-> acc.processed_ids \cup {elem_id},
                            has_changes |-> acc.has_changes])
                  ELSE ClientLoop_every(server_elements, Tail(client_elements),
                           [elements |-> Append(acc.elements, client_elem),
                            processed_ids |-> acc.processed_ids \cup {elem_id},
                            has_changes |-> acc.has_changes
                                \/ server_elem = NoElem
                                \/ client_elem # server_elem])

RECURSIVE ClientLoop(_, _, _)
ClientLoop(server_elements, client_elements, acc) ==
    IF client_elements = <<>>
    THEN acc
    ELSE LET client_elem == Head(client_elements)
             elem_id == Get(client_elem, "id", PyNone)
             server_elem == MapGet(server_elements, elem_id)
         IN  IF ~Truthy(elem_id) \/ elem_id \in acc.processed_ids
             THEN ClientLoop(server_elements, Tail(client_elements), acc)
             ELSE IF should_discard_client_element(server_elem, client_elem)
                  THEN ClientLoop(server_elements, Tail(client_elements),
                           [elements |-> Append(acc.elements, server_elem),
                            processed_ids |-> acc.processed_ids \cup {elem_id},
                            has_changes |-> acc.has_changes])
                  ELSE ClientLoop(server_elements, Tail(client_elements),
                           [elements |-> Append(acc.elements, client_elem),
                            processed_ids |-> acc.processed_ids \cup {elem_id},
                            has_changes |-> acc.has_changes
                                \/ server_elem = NoElem
                                \/ client_elem # server_elem])

\* The loop adding the remaining server elements.  (RemainingLoop_skipped:
\* a merge that returns the reconciled client elements only.)
RemainingLoop_skipped(server_elements, keys, acc) == acc

RECURSIVE RemainingLoop(_, _, _)
RemainingLoop(server_elements, keys, acc) ==
    IF keys = <<>>
    THEN acc
    ELSE IF Head(keys) \in acc.processed_ids
         THEN RemainingLoop(server_elements, Tail(keys), acc)
         ELSE RemainingLoop(server_elements, Tail(keys),
                  [acc EXCEPT !.elements =
                      Append(acc.elements, MapGet(server_elements, Head(keys)))])

\* Returns [elements |-> ordered_elements, has_changes |-> has_changes].
\* (reconcile_elements_touched: a merge that reports a change whenever a
\* client element was accepted, equal to the server's or not.)
reconcile_elements_touched(server_elements, client_elements) ==
    LET afterClient == ClientLoop(server_elements, client_elements,
                           [elements |-> <<>>, processed_ids |-> {},
                            has_changes |-> FALSE])
        afterServer == RemainingLoop(server_elements,
                           MapKeys(server_elements, {}), afterClient)
        accepted == \E i \in 1..Len(afterClient.elements) :
                        \E j \in 1..Len(client_elements) :
                            afterClient.elements[i] = client_elements[j]
    IN  [elements |-> order_by_fractional_index(afterServer.elements),
         has_changes |-> accepted]

reconcile_elements(server_elements, client_elements) ==
    LET afterClient == ClientLoop(server_elements, client_elements,
                           [elements |-> <<>>, processed_ids |-> {},
                            has_changes |-> FALSE])
        afterServer == RemainingLoop(server_elements,
                           MapKeys(server_elements, {}), afterClient)
    IN  [elements |-> order_by_fractional_index(afterServer.elements),
         has_changes |-> afterServer.has_changes]

(***************************************************************************)
(* State.                                                                  *)
(***************************************************************************)
VARIABLES
    \* --- the reconciliation function on its own ---
    server_elements,   \* the server's element list
    prop_a, prop_b,    \* two client proposals (elements)
    discard_out,       \* _should_discard_client_element(server's, prop_a)
    out_ab, out_ba,    \* the lists after reconciling a then b, b then a
    rphase,            \* "idle" | "in" | "cmp" | "out" | "off"
    merge,             \* a _reconcile_elements call: its payload and results
    trip,              \* a Pad written with Pad.cache and read with Pad.from_redis
    \* --- Redis and the database ---
    stream,            \* pad:stream:{pad_id}, the entries in append order
    cache,             \* the hash pad:{pad_id}, or NotCached
    store,             \* the PadStore row
    \* --- the server process ---
    worker,            \* CanvasWorker: worker_id, _active_pads, _pad_tasks,
                       \* _periodic_save_tasks
    ctask,             \* the _process_pad_updates tasks
    stask,             \* the _periodic_save_to_db tasks
    stopper,           \* a stop_processing_pad call
    caller,            \* a request handler calling Pad.get_by_id
    env,               \* how often the environment has acted
    hist,              \* history: what was processed, and when appended
    \* --- the WebSocket hub ---
    fwd,               \* consume_redis_stream, one task per connection
    ptr,               \* consume_pointer_updates and its pub/sub subscription
    sock,              \* what each connection's socket has been sent
    meta,              \* history: who published each stream entry, and
                       \* which forwarders were reading at that time
    pcount,            \* history: pointer updates published so far
    \* --- sessions, presence and sharing ---
    sess,              \* websocket_endpoint, one call per connection
    presence,          \* the hash pad:users:{pad_id}: user id -> connections
    acl,               \* the pad's owner_id, sharing_policy and whitelist
    probe,             \* a call of Pad.can_access: its argument and result
    inb,               \* handle_websocket_messages, one task per connection,
                       \* and whether a send to the connection has failed
    peer               \* a Pad.get_by_id call in another server process

rvars == <<server_elements, prop_a, prop_b, discard_out, out_ab, out_ba, rphase,
           merge, trip>>

svars == <<stream, cache, store, worker, ctask, stask, stopper, caller, env, hist>>

wvars == <<cache, store, worker, ctask, stask, stopper, caller, env, hist>>

hvars == <<fwd, ptr, sock, meta, pcount>>

evars == <<sess, presence, acl, probe, inb, peer>>

vars == <<rvars, svars, hvars, evars>>

(***************************************************************************)
(* The pad, its cache record and its store row.                            *)
(***************************************************************************)
PadId == "p1"

\* The worker ids of the successive processes (uuid4, fresh per process).
WorkerIds == <<"w1", "w2", "w3">>

\* The scene of a new pad.
EmptyData == [elements |-> <<>>]

NotCached == [cached |-> FALSE]

\* No Pad object at hand.
NoPad == [nopad |-> TRUE]

\* Pad.from_redis: the Pad object built from the cached hash.
from_redis(c) == [data |-> c.data, worker_id |-> c.worker_id]

\* Pad.from_store: worker_id keeps its default, None.
from_store(s) == [data |-> s.data, worker_id |-> PyNone]

\* Pad.cache: every field of the hash is written from the Pad object in
\* hand; 'worker_id': self.worker_id or ''.
CacheRecord(pad) ==
    [cached |-> TRUE,
     data |-> pad.data,
     worker_id |-> IF Truthy(pad.worker_id) THEN pad.worker_id ELSE ""]

\* Pad.save, the store half: self._store.data = self.data, then
\* PadStore.save.  (PadStoreSave_dropped: a save that would leave the row
\* as it was.)
PadStoreSave_dropped(s, pad) == s

PadStoreSave(s, pad) == [s EXCEPT !.data = pad.data]

(***************************************************************************)
(* Events.  A frame is what a client sends; the hub stamps it and appends  *)
(* it to the stream (publish_event_to_redis drops the fields that are      *)
(* None; the data dict goes through json.dumps and comes back through      *)
(* json.loads as the same dict).                                           *)
(***************************************************************************)
Conns == {"c1", "c2"}

\* The proposals of the clients for element e1, with pairwise distinct
\* (version, versionNonce).
SceneProposals ==
    {[id |-> "e1", version |-> 1, versionNonce |-> 2, index |-> "a0"],
     [id |-> "e1", version |-> 1, versionNonce |-> 1, index |-> "a0"],
     [id |-> "e1", version |-> 2, versionNonce |-> 2, index |-> "a0"]}

SceneFrames ==
    {[type |-> "scene_update", data |-> [elements |-> <<e>>], connection_id |-> c] :
        e \in SceneProposals, c \in {PyNone}}

\* data=None of a WebSocketMessage.
NoData == [none |-> TRUE]

\* The user each connection of the hub has authenticated as.
UserOf == [c \in Conns |-> IF c = "c1" THEN "u1" ELSE "u2"]

\* datetime.now(timezone.utc) of the server.
ServerNow == "now"

\* _handle_received_data: the WebSocketMessage built from a frame of
\* connection conn, authenticated as user; pad_id, user_id, connection_id
\* and timestamp are the server's, whatever the frame says.
\* (processed_message_unstamped: a hub that would let a frame's own
\* connection_id through; processed_message_trusting: one that would let
\* a frame's own user_id through.)
processed_message_unstamped(user, conn, frame) ==
    [type |-> Get(frame, "type", "unknown_client_message"),
     pad_id |-> PadId,
     user_id |-> user,
     connection_id |-> IF Get(frame, "connection_id", PyNone) # PyNone
                       THEN frame.connection_id ELSE conn,
     timestamp |-> ServerNow,
     data |-> Get(frame, "data", NoData)]

processed_message_trusting(user, conn, frame) ==
    [type |-> Get(frame, "type", "unknown_client_message"),
     pad_id |-> PadId,
     user_id |-> Get(frame, "user_id", user),
     connection_id |-> conn,
     timestamp |-> ServerNow,
     data |-> Get(frame, "data", NoData)]

processed_message(user, conn, frame) ==
    [type |-> Get(frame, "type", "unknown_client_message"),
     pad_id |-> PadId,
     user_id |-> user,
     connection_id |-> conn,
     timestamp |-> ServerNow,
     data |-> Get(frame, "data", NoData)]

\* publish_event_to_redis: the entry XADDed for a message.
StreamEntry(msg) ==
    IF msg.data = NoData
    THEN [k \in DOMAIN msg \ {"data"} |-> msg[k]]
    ELSE msg

\* The sentinel "$" of XREAD: only entries appended after the call arrives.
Dollar == -1

\* XREAD: the id a call reads from.  (ResolveId_from_start: a read that
\* would take "$" for the beginning of the stream.)
ResolveId_from_start(last_id, s) == IF last_id = Dollar THEN 0 ELSE last_id

ResolveId(last_id, s) == IF last_id = Dollar THEN Len(s) ELSE last_id

\* The ids XREAD returns for a cursor: the entries after it (the counts of
\* the code, 5, 10 and 50, exceed MaxEvents and MaxHubEvents).
RECURSIVE IdsFrom(_, _)
IdsFrom(from, to) == IF from > to THEN <<>> ELSE <<from>> \o IdsFrom(from + 1, to)

\* (XreadIds_newest_first: a read that would return the newest entry first.)
XreadIds_newest_first(cursor, s) ==
    LET ids == IdsFrom(cursor + 1, Len(s))
    IN  [k \in 1..Len(ids) |-> ids[Len(ids) + 1 - k]]

XreadIds(cursor, s) == IdsFrom(cursor + 1, Len(s))

(***************************************************************************)
(* CanvasWorker.                                                           *)
(***************************************************************************)
Tasks == 1..MaxTasks

\* A task slot not in use.  (born, seen, raised and read_raised are
\* history: the length of the stream when the task was created, the entry
\* the task passed to _process_message last, the entries whose processing
\* raised, and how often xread raised.)
NoConsumer ==
    [pc |-> "none", draining |-> FALSE, last_id |-> Dollar, cursor |-> Dollar,
     batch |-> <<>>, pad |-> NoPad, born |-> 0, seen |-> 0, raised |-> {},
     read_raised |-> 0]

\* asyncio.create_task(self._process_pad_updates(pad_id)): last_id = "$".
NewConsumer == [NoConsumer EXCEPT !.pc = "loop", !.born = Len(stream)]

NoSaver == [pc |-> "none", pad |-> NoPad, quiet |-> FALSE, failed |-> 0]

\* asyncio.create_task(self._periodic_save_to_db(pad_id))
NewSaver == [NoSaver EXCEPT !.pc = "sleep"]

NoStopper == [pc |-> "idle", graceful |-> TRUE, task |-> 0, pad |-> NoPad,
              timed_out |-> FALSE]

NoCaller == [pc |-> "idle", pad |-> NoPad]

\* CanvasWorker.__init__ in the n-th process.
NewWorker(n) ==
    [worker_id |-> WorkerIds[n], active_pads |-> {}, pad_task |-> 0,
     save_task |-> 0]

Running(ct) == {t \in Tasks : ct[t].pc \notin {"none", "done"}}

FreeConsumers(ct) == {t \in Tasks : ct[t].pc = "none"}
FreeSavers(st) == {t \in Tasks : st[t].pc = "none"}

\* start_processing_pad: no await in it, one step.  Returns the worker and
\* the task tables after the call.
start_processing_pad_unguarded(w, ct, st) ==
    LET t == CHOOSE x \in FreeConsumers(ct) : \A y \in FreeConsumers(ct) : x <= y
        s == CHOOSE x \in FreeSavers(st) : \A y \in FreeSavers(st) : x <= y
    IN  [w |-> [w EXCEPT !.active_pads = @ \cup {PadId},
                         !.pad_task = t, !.save_task = s],
         ct |-> [ct EXCEPT ![t] = NewConsumer],
         st |-> [st EXCEPT ![s] = NewSaver]]

start_processing_pad(w, ct, st) ==
    IF PadId \in w.active_pads
    THEN [w |-> w, ct |-> ct, st |-> st]
    ELSE start_processing_pad_unguarded(w, ct, st)

\* The done callbacks of start_processing_pad: they name the pad, not the
\* task that ended.
cleanup_task(w) == [w EXCEPT !.active_pads = @ \ {PadId}, !.pad_task = 0]
cleanup_save_task(w) == [w EXCEPT !.save_task = 0]

\* Pad.ensure_worker, the test at its top.
HasWorker(pad, w) == Truthy(pad.worker_id)

\* Pad.get_by_id up to its first cache write: the read of the cache (or of
\* the store on a miss), then ensure_worker, which starts the tasks when
\* the record names no worker.  write: a cache write of the pad follows.
GetByIdRead(c, s, w, ct, st) ==
    LET pad0 == IF c.cached THEN from_redis(c) ELSE from_store(s)
    IN  IF HasWorker(pad0, w)
        THEN [pad |-> pad0, w |-> w, ct |-> ct, st |-> st, write |-> FALSE]
        ELSE LET r == start_processing_pad(w, ct, st)
             IN  [pad |-> [pad0 EXCEPT !.worker_id = w.worker_id],
                  w |-> r.w, ct |-> r.ct, st |-> r.st, write |-> TRUE]

\* The model has a task slot for every task the call would create.
CanGetById(c, w, ct, st) ==
    \/ c.cached /\ HasWorker(from_redis(c), w)
    \/ PadId \in w.active_pads
    \/ FreeConsumers(ct) # {} /\ FreeSavers(st) # {}

\* A connection not yet accepted: no consume_redis_stream task ...
NoForwarder == [pc |-> "new", last_id |-> Dollar, cursor |-> Dollar, batch |-> <<>>]

\* ... and no consume_pointer_updates task.
NoPointer == [pc |-> "new", inbox |-> <<>>]

(***************************************************************************)
(* Sharing: the pad's owner, its sharing policy and its whitelist.         *)
(***************************************************************************)
\* The users of the model: u1 creates the pad.
AllUsers == {"u1", "u2", "u3"}

Policies == {"private", "whitelist", "public"}

\* Pad.create: sharing_policy="private", whitelist=[].
NewAcl(owner) == [owner_id |-> owner, sharing_policy |-> "private", whitelist |-> {}]

\* Pad.set_sharing_policy
set_sharing_policy(pad, policy) == [pad EXCEPT !.sharing_policy = policy]

\* Pad.add_to_whitelist
add_to_whitelist(pad, user_id) == [pad EXCEPT !.whitelist = @ \cup {user_id}]

\* Pad.remove_from_whitelist
remove_from_whitelist(pad, user_id) == [pad EXCEPT !.whitelist = @ \ {user_id}]

\* Pad.can_access.  (can_access_owner_skipped: a guard that would not look
\* at the owner.)
can_access_owner_skipped(pad, user_id) ==
    IF pad.sharing_policy = "public" THEN TRUE
    ELSE IF pad.sharing_policy = "whitelist" THEN user_id \in pad.whitelist
    ELSE FALSE

can_access(pad, user_id) ==
    IF pad.owner_id = user_id THEN TRUE
    ELSE IF pad.sharing_policy = "public" THEN TRUE
    ELSE IF pad.sharing_policy = "whitelist" THEN user_id \in pad.whitelist
    ELSE FALSE

\* No call of can_access yet.
NoProbe == [called |-> FALSE]

\* A request not yet handled by websocket_endpoint.
NoSession ==
    [pc |-> "new", user |-> PyNone, held |-> <<>>, auth |-> "off", code |-> "none"]

\* handle_websocket_messages awaiting receive_text; no send has failed.
NoInbound == [pc |-> "recv", frame |-> NoData, failed |-> FALSE]

\* No Pad.get_by_id under way in the other server process.
NoPeer == [pc |-> "idle", pad |-> NoPad, calls |-> 0]

\* No frame in hand, no call under way in another process.
XInit ==
    /\ inb = [c \in Conns |-> NoInbound]
    /\ peer = NoPeer

\* Sessions, presence and sharing of a pad just created by u1.
EInit ==
    /\ sess = [c \in Conns |-> NoSession]
    /\ presence = [u \in AllUsers |-> <<>>]
    /\ acl = NewAcl("u1")
    /\ probe = NoProbe
    /\ XInit

\* Redis empty, no task, no connection; the store row holds the scene data.
SInitWith(data) ==
    /\ stream = <<>>
    /\ cache = NotCached
    /\ store = [data |-> data]
    /\ worker = NewWorker(1)
    /\ ctask = [t \in Tasks |-> NoConsumer]
    /\ stask = [t \in Tasks |-> NoSaver]
    /\ stopper = NoStopper
    /\ caller = NoCaller
    /\ env = [stops |-> 0, calls |-> 0, expiries |-> 0, crashes |-> 0]
    /\ hist = [processed |-> {}, watched |-> {}]
    /\ fwd = [c \in Conns |-> NoForwarder]
    /\ ptr = [c \in Conns |-> NoPointer]
    /\ sock = [c \in Conns |-> {}]
    /\ meta = <<>>
    /\ pcount = 0

SInit == SInitWith(EmptyData)

(***************************************************************************)
(* SpecReconcile: _reconcile_elements and _should_discard_client_element   *)
(* applied to every server list reachable from the empty scene and every   *)
(* pair of proposals for one element id.                                   *)
(***************************************************************************)
ProposalPairs == E1Elements \X E1Elements

\* No _reconcile_elements call under way.
NoMerge == [pc |-> "idle"]

\* No Pad object on its way through the cache.
NoTrip == [pc |-> "idle"]

RInit ==
    /\ server_elements = <<>>
    /\ prop_a = NoElem
    /\ prop_b = NoElem
    /\ discard_out = FALSE
    /\ out_ab = <<>>
    /\ out_ba = <<>>
    /\ rphase = "idle"
    /\ merge = NoMerge
    /\ trip = NoTrip
    /\ SInit
    /\ EInit

\* Another client's scene update carrying the bystander element.
RSeed ==
    /\ rphase = "idle"
    /\ \E e \in E2Elements :
           server_elements' = reconcile_elements(server_elements, <<e>>).elements
    /\ UNCHANGED <<prop_a, prop_b, discard_out, out_ab, out_ba, rphase, merge, trip, svars, hvars, evars>>

\* Two clients send a proposal each for the contested element.
RPropose ==
    /\ rphase = "idle"
    /\ \E p \in ProposalPairs : prop_a' = p[1] /\ prop_b' = p[2]
    /\ rphase' = "in"
    /\ UNCHANGED <<server_elements, discard_out, out_ab, out_ba, merge, trip, svars, hvars, evars>>

\* The discard decision for prop_a against the server's element of that id.
RDiscard ==
    /\ rphase = "in"
    /\ discard_out' = should_discard_client_element(
                          MapGet(server_elements, prop_a.id), prop_a)
    /\ rphase' = "cmp"
    /\ UNCHANGED <<server_elements, prop_a, prop_b, out_ab, out_ba, merge, trip, svars, hvars, evars>>

\* Two scene updates, one per proposal, in both orders.
RBothOrders ==
    /\ rphase = "cmp"
    /\ out_ab' = reconcile_elements(
                     reconcile_elements(server_elements, <<prop_a>>).elements,
                     <<prop_b>>).elements
    /\ out_ba' = reconcile_elements(
                     reconcile_elements(server_elements, <<prop_b>>).elements,
                     <<prop_a>>).elements
    /\ rphase' = "out"
    /\ UNCHANGED <<server_elements, prop_a, prop_b, discard_out, merge, trip, svars, hvars, evars>>

\* The server keeps the a-then-b result.
RCommit ==
    /\ rphase = "out"
    /\ server_elements' = out_ab
    /\ prop_a' = NoElem
    /\ prop_b' = NoElem
    /\ discard_out' = FALSE
    /\ out_ab' = <<>>
    /\ out_ba' = <<>>
    /\ rphase' = "idle"
    /\ UNCHANGED <<merge, trip, svars, hvars, evars>>

RNext == RSeed \/ RPropose \/ RDiscard \/ RBothOrders \/ RCommit

SpecReconcile == RInit /\ [][RNext]_vars

(***************************************************************************)
(* SpecMerge: _reconcile_elements on whole payloads.  The server list is   *)
(* what earlier calls left; a payload is any short list of elements, with  *)
(* repeated ids, ids that are empty or missing, and indexes that are empty *)
(* or missing.                                                             *)
(***************************************************************************)
MergeElements ==
    { [id |-> "e1", version |-> 1, versionNonce |-> 1, index |-> "a1"],
      [id |-> "e1", version |-> 1, versionNonce |-> 2, index |-> "a0"],
      [id |-> "e1", version |-> 2, versionNonce |-> 1, index |-> "a0"],
      [id |-> "e2", version |-> 1, versionNonce |-> 1, index |-> "a0"],
      [id |-> "e2", version |-> 1, versionNonce |-> 1, index |-> ""],
      [id |-> "e2", version |-> 2, versionNonce |-> 1],
      [id |-> "", version |-> 1, versionNonce |-> 1, index |-> "a0"],
      [version |-> 1, versionNonce |-> 1, index |-> "a1"] }

Payloads == UNION {[1..n -> MergeElements] : n \in 0..MaxPayload}

\* The payload read from its other end.
Reversed(client_elements) ==
    [i \in 1..Len(client_elements) |->
        client_elements[Len(client_elements) + 1 - i]]

\* The payload without the elements the loop skips: those with an empty or
\* missing id, and every later occurrence of an id already met.
RECURSIVE FirstOccurrences(_, _)
FirstOccurrences(client_elements, processed_ids) ==
    IF client_elements = <<>>
    THEN <<>>
    ELSE LET elem_id == Get(Head(client_elements), "id", PyNone)
         IN  IF ~Truthy(elem_id) \/ elem_id \in processed_ids
             THEN FirstOccurrences(Tail(client_elements), processed_ids)
             ELSE <<Head(client_elements)>>
                  \o FirstOccurrences(Tail(client_elements),
                                      processed_ids \cup {elem_id})

\* handle_scene_update calls _reconcile_elements on a payload; next to the
\* call the same function is applied to the payload without the skipped
\* elements, to the reversed payload, and to the payload again on the
\* list the call returned.
M_Call ==
    /\ merge.pc = "idle"
    /\ \E client_elements \in Payloads :
           LET out == reconcile_elements(server_elements, client_elements)
           IN  merge' = [pc |-> "done",
                         client_elements |-> client_elements,
                         out |-> out,
                         first |-> reconcile_elements(server_elements,
                                      FirstOccurrences(client_elements, {})),
                         rev |-> reconcile_elements(server_elements,
                                      Reversed(client_elements)),
                         again |-> reconcile_elements(out.elements, client_elements)]
    /\ UNCHANGED <<server_elements, prop_a, prop_b, discard_out, out_ab, out_ba,
                   rphase, trip, svars, hvars, evars>>

\* "if elements_changed: pad.data['elements'] = reconciled_elements"
M_Return ==
    /\ merge.pc = "done"
    /\ server_elements' = IF merge.out.has_changes THEN merge.out.elements
                          ELSE server_elements
    /\ merge' = NoMerge
    /\ UNCHANGED <<prop_a, prop_b, discard_out, out_ab, out_ba, rphase, trip,
                   svars, hvars, evars>>

MergeNext == M_Call \/ M_Return

(***************************************************************************)
(* The hub's inbound path, as far as the stream is concerned:              *)
(* _handle_received_data stamps the frame and publish_event_to_redis       *)
(* appends it.                                                             *)
(***************************************************************************)
\* ensure_worker has returned for the pad (the cache record names this
\* process's worker, the pad is active) and the registered consumer has
\* sent its first XREAD.
Watched ==
    /\ caller.pc = "idle"
    /\ cache.cached
    /\ cache.worker_id = worker.worker_id
    /\ PadId \in worker.active_pads
    /\ worker.pad_task # 0
    /\ ctask[worker.pad_task].cursor # Dollar

WorkerFrames ==
    SceneFrames \cup {[type |-> "user_joined", connection_id |-> PyNone]}

\* The forwarders whose first XREAD has been sent.
Reading == {d \in Conns : fwd[d].pc \in {"loop", "xread", "msg"}
                          /\ fwd[d].cursor # Dollar}

\* A frame of frames arrives on a connection of conns and is published.
PublishFrom(frames, conns, bound) ==
    /\ Len(stream) < bound
    /\ \E c \in conns, f \in frames :
           /\ stream' = Append(stream, StreamEntry(processed_message(UserOf[c], c, f)))
           /\ meta' = Append(meta, [by |-> c, reading |-> Reading])
    /\ hist' = [hist EXCEPT !.watched = IF Watched THEN @ \cup {Len(stream) + 1} ELSE @]
    /\ stask' = [s \in Tasks |-> [stask[s] EXCEPT !.quiet = FALSE]]
    /\ UNCHANGED <<evars, rvars, cache, store, worker, ctask, stopper, caller, env,
                   fwd, ptr, sock, pcount>>

Publish(bound) == PublishFrom(WorkerFrames, {"c1"}, bound)

(***************************************************************************)
(* CanvasWorker._process_pad_updates, one task t.                          *)
(***************************************************************************)
\* Every appended entry went through _process_message, no handler is
\* still at work and no request handler is inside Pad.get_by_id.
AllConsumed ==
    /\ \A i \in 1..Len(stream) : i \in hist.processed
    /\ \A t \in Tasks : ctask[t].pc \notin {"msg", "ensure_w", "cache_w"}
    /\ caller.pc = "idle"

\* The message in hand is finished: "last_id = message_id" in the main
\* loop; the next message of the batch, or back to the while test; the
\* final drain ends the task.
AdvanceTask(tk) ==
    LET rest == Tail(tk.batch)
    IN  [tk EXCEPT !.batch = rest,
                   !.pad = NoPad,
                   !.last_id = IF tk.draining THEN @ ELSE Head(tk.batch),
                   !.pc = IF rest # <<>> THEN "msg"
                          ELSE IF tk.draining THEN "exit" ELSE "loop"]

\* pad.data[k] = v on the dict pad.data, the key being created when the
\* dict has none.
SetKey(data, k, v) ==
    [j \in DOMAIN data \cup {k} |-> IF j = k THEN v ELSE data[j]]

\* handle_scene_update after Pad.get_by_id returned pad.  The files dict
\* (a set of (file id, content) pairs) is replaced when the client's is
\* truthy and differs from the pad's; the elements are reconciled when
\* the client sent any; the cache is written if either changed.
\* (handle_scene_update_always: a handler that calls pad.cache() whether
\* or not anything changed.)
handle_scene_update_always(tk, pad, msg) ==
    LET client_elements == Get(msg.data, "elements", <<>>)
        client_files == Get(msg.data, "files", {})
        files_changed == /\ client_files # {}
                         /\ client_files # Get(pad.data, "files", {})
        d1 == IF files_changed THEN SetKey(pad.data, "files", client_files)
              ELSE pad.data
        rec == reconcile_elements(Get(d1, "elements", <<>>), client_elements)
        elements_changed == client_elements # <<>> /\ rec.has_changes
        d2 == IF elements_changed THEN SetKey(d1, "elements", rec.elements) ELSE d1
    IN  [tk EXCEPT !.pad = [pad EXCEPT !.data = d2], !.pc = "cache_w"]

handle_scene_update(tk, pad, msg) ==
    LET client_elements == Get(msg.data, "elements", <<>>)
        client_files == Get(msg.data, "files", {})
        files_changed == /\ client_files # {}
                         /\ client_files # Get(pad.data, "files", {})
        d1 == IF files_changed THEN SetKey(pad.data, "files", client_files)
              ELSE pad.data
        rec == reconcile_elements(Get(d1, "elements", <<>>), client_elements)
        elements_changed == client_elements # <<>> /\ rec.has_changes
        d2 == IF elements_changed THEN SetKey(d1, "elements", rec.elements) ELSE d1
    IN  IF files_changed \/ elements_changed
        THEN [tk EXCEPT !.pad = [pad EXCEPT !.data = d2], !.pc = "cache_w"]
        ELSE AdvanceTask(tk)

\* The appState dicts of the model, as sets of (key, value) pairs; the
\* dict pad.data["appState"] as a set of (user id, appState) pairs.
SlotOf(data, user_id) ==
    LET hits == {p \in Get(data, "appState", {}) : p[1] = user_id}
    IN  IF hits = {} THEN {} ELSE (CHOOSE p \in hits : TRUE)[2]

\* pad.data["appState"][user_id] = new_appstate, the key "appState" being
\* created when pad.data has none.  (SetSlot_alone: an assignment that
\* would drop the other users' entries.)
SetSlot_alone(data, user_id, new_appstate) ==
    [k \in DOMAIN data \cup {"appState"} |->
        IF k = "appState" THEN {<<user_id, new_appstate>>} ELSE data[k]]

SetSlot(data, user_id, new_appstate) ==
    [k \in DOMAIN data \cup {"appState"} |->
        IF k = "appState"
        THEN {p \in Get(data, "appState", {}) : p[1] # user_id}
             \cup {<<user_id, new_appstate>>}
        ELSE data[k]]

\* handle_appstate_update after Pad.get_by_id returned pad: the sender's
\* entry is replaced and the cache written.
handle_appstate_update(tk, pad, msg) ==
    [tk EXCEPT !.pad = [pad EXCEPT !.data =
                           SetSlot(pad.data, msg.user_id, msg.data.appState)],
               !.pc = "cache_w"]

\* _process_message: the handler of the message, if it has one and the
\* handler goes as far as Pad.get_by_id (handle_appstate_update returns
\* before it when the appState is empty).
\* (Handled_any_type: a dispatch that hands every event with data to a
\* handler, whatever its type.)
Handled_any_type(msg) ==
    /\ "data" \in DOMAIN msg
    /\ DOMAIN msg.data # {}

Handled(msg) ==
    /\ "data" \in DOMAIN msg
    /\ DOMAIN msg.data # {}
    /\ \/ msg.type = "scene_update"
       \/ msg.type = "appstate_update" /\ Get(msg.data, "appState", {}) # {}

handle_update(tk, pad, msg) ==
    IF msg.type = "scene_update"
    THEN handle_scene_update(tk, pad, msg)
    ELSE handle_appstate_update(tk, pad, msg)

\* A task whose body has ended: its done callback runs, and the task is
\* kept only while stop_processing_pad awaits it.
Settle(t, tk, w) ==
    IF tk.pc = "exit"
    THEN [tk |-> IF stopper.pc = "waiting" /\ stopper.task = t
                 THEN [NoConsumer EXCEPT !.pc = "done"]
                 ELSE NoConsumer,
          w |-> cleanup_task(w)]
    ELSE [tk |-> tk, w |-> w]

\* The while test, then XREAD with last_id: "$" until a message has been
\* received.  When the pad has left the active set the loop is left and
\* the final XREAD is sent.
C_Loop(t) ==
    /\ ctask[t].pc = "loop"
    /\ LET tk == ctask[t]
           cur == ResolveId(tk.last_id, stream)
       IN  ctask' = [ctask EXCEPT ![t] =
               IF PadId \in worker.active_pads
               THEN [tk EXCEPT !.pc = "xread", !.cursor = cur]
               ELSE [tk EXCEPT !.pc = "xread", !.cursor = cur,
                               !.draining = TRUE]]
    /\ UNCHANGED <<evars, hvars, rvars, stream, cache, store, worker, stask, stopper, caller,
                   env, hist>>

\* XREAD returns: the entries after the cursor, or nothing when the block
\* time has passed without one.
C_XreadReturn(t) ==
    /\ ctask[t].pc = "xread"
    /\ LET tk == ctask[t]
           ids == XreadIds(tk.cursor, stream)
           tk1 == IF ids # <<>>
                  THEN [tk EXCEPT !.pc = "msg", !.batch = ids]
                  ELSE [tk EXCEPT !.pc = IF tk.draining THEN "exit" ELSE "loop"]
           fin == Settle(t, tk1, worker)
       IN  /\ ctask' = [ctask EXCEPT ![t] = fin.tk]
           /\ worker' = fin.w
    /\ UNCHANGED <<evars, hvars, rvars, stream, cache, store, stask, stopper, caller, env, hist>>

\* _process_message on the next message of the batch; a scene_update or
\* an appstate_update with data goes to its handler, whose first await is
\* Pad.get_by_id.
C_Message(t) ==
    /\ ctask[t].pc = "msg"
    /\ LET i == Head(ctask[t].batch)
           tk == [ctask[t] EXCEPT !.seen = i]
           msg == stream[i]
           handled == Handled(msg)
       IN  /\ hist' = [hist EXCEPT !.processed = @ \cup {i}]
           /\ IF handled
              THEN /\ CanGetById(cache, worker, ctask, stask)
                   /\ LET r == GetByIdRead(cache, store, worker, ctask, stask)
                          tk1 == IF r.write
                                 THEN [tk EXCEPT !.pad = r.pad, !.pc = "ensure_w"]
                                 ELSE handle_update(tk, r.pad, msg)
                          fin == Settle(t, tk1, r.w)
                      IN  /\ ctask' = [r.ct EXCEPT ![t] = fin.tk]
                          /\ worker' = fin.w
                          /\ stask' = r.st
              ELSE /\ LET fin == Settle(t, AdvanceTask(tk), worker)
                      IN  /\ ctask' = [ctask EXCEPT ![t] = fin.tk]
                          /\ worker' = fin.w
                   /\ stask' = stask
    /\ UNCHANGED <<evars, hvars, rvars, stream, cache, store, stopper, caller, env>>

\* ensure_worker's pad.cache() inside that Pad.get_by_id.
\* _process_message raises for the message in hand: "except Exception",
\* a print, and "last_id = message_id" in the main loop; the final drain
\* goes on with the next message as well.  (C_MessageRaises_ends: a loop
\* whose task ends on the exception.)
C_MessageRaises_ends(t) ==
    /\ ctask[t].pc = "msg"
    /\ LET i == Head(ctask[t].batch)
           tk == [ctask[t] EXCEPT !.seen = i, !.raised = @ \cup {i}, !.pc = "exit"]
           fin == Settle(t, tk, worker)
       IN  /\ hist' = [hist EXCEPT !.processed = @ \cup {i}]
           /\ ctask' = [ctask EXCEPT ![t] = fin.tk]
           /\ worker' = fin.w
    /\ UNCHANGED <<evars, hvars, rvars, stream, cache, store, stask, stopper, caller, env>>

C_MessageRaises(t) ==
    /\ ctask[t].pc = "msg"
    /\ LET i == Head(ctask[t].batch)
           tk == [ctask[t] EXCEPT !.seen = i, !.raised = @ \cup {i}]
           fin == Settle(t, AdvanceTask(tk), worker)
       IN  /\ hist' = [hist EXCEPT !.processed = @ \cup {i}]
           /\ ctask' = [ctask EXCEPT ![t] = fin.tk]
           /\ worker' = fin.w
    /\ UNCHANGED <<evars, hvars, rvars, stream, cache, store, stask, stopper, caller, env>>

\* xread raises: in the main loop "except Exception", a print and
\* asyncio.sleep(1), then the while test again with last_id as it was; in
\* the final drain the task ends.
C_XreadRaises(t) ==
    /\ ctask[t].pc = "xread"
    /\ ctask[t].read_raised < MaxReadFaults
    /\ LET tk == [ctask[t] EXCEPT !.read_raised = @ + 1,
                                  !.pc = IF ctask[t].draining THEN "exit" ELSE "loop"]
           fin == Settle(t, tk, worker)
       IN  /\ ctask' = [ctask EXCEPT ![t] = fin.tk]
           /\ worker' = fin.w
    /\ UNCHANGED <<evars, hvars, rvars, stream, cache, store, stask, stopper, caller, env,
                   hist>>

C_EnsureWrite(t) ==
    /\ ctask[t].pc = "ensure_w"
    /\ cache' = CacheRecord(ctask[t].pad)
    /\ LET tk == ctask[t]
           fin == Settle(t, handle_update(tk, tk.pad, stream[Head(tk.batch)]),
                         worker)
       IN  /\ ctask' = [ctask EXCEPT ![t] = fin.tk]
           /\ worker' = fin.w
    /\ UNCHANGED <<evars, hvars, rvars, stream, store, stask, stopper, caller, env, hist>>

\* The handler's pad.cache().
C_CacheWrite(t) ==
    /\ ctask[t].pc = "cache_w"
    /\ cache' = CacheRecord(ctask[t].pad)
    /\ LET fin == Settle(t, AdvanceTask(ctask[t]), worker)
       IN  /\ ctask' = [ctask EXCEPT ![t] = fin.tk]
           /\ worker' = fin.w
    /\ UNCHANGED <<evars, hvars, rvars, stream, store, stask, stopper, caller, env, hist>>

(***************************************************************************)
(* CanvasWorker._periodic_save_to_db, one task s; _save_pad and Pad.save.  *)
(***************************************************************************)
\* SAVE_INTERVAL has passed: save if the pad is still active, else the
\* while loop ends and the done callback runs.
S_Wake(s) ==
    /\ stask[s].pc = "sleep"
    /\ IF PadId \in worker.active_pads
       THEN LET r == GetByIdRead(cache, store, worker, ctask, stask)
            IN  /\ stask' = [r.st EXCEPT ![s] =
                       [pc |-> IF r.write THEN "ensure_w" ELSE "store_w",
                        pad |-> r.pad, quiet |-> AllConsumed,
                        failed |-> r.st[s].failed]]
                /\ worker' = r.w
                /\ ctask' = r.ct
       ELSE /\ stask' = [stask EXCEPT ![s] = NoSaver]
            /\ worker' = cleanup_save_task(worker)
            /\ ctask' = ctask
    /\ UNCHANGED <<evars, hvars, rvars, stream, cache, store, stopper, caller, env, hist>>

S_EnsureWrite(s) ==
    /\ stask[s].pc = "ensure_w"
    /\ cache' = CacheRecord(stask[s].pad)
    /\ stask' = [stask EXCEPT ![s].pc = "store_w"]
    /\ UNCHANGED <<evars, hvars, rvars, stream, store, worker, ctask, stopper, caller, env, hist>>

\* Pad.save: the store is written from the Pad object read at S_Wake ...
S_StoreWrite(s) ==
    /\ stask[s].pc = "store_w"
    /\ store' = PadStoreSave(store, stask[s].pad)
    /\ stask' = [stask EXCEPT ![s].pc = "cache_w"]
    /\ UNCHANGED <<evars, hvars, rvars, stream, cache, worker, ctask, stopper, caller, env, hist>>

\* ... and then the cache, from the same object.
S_CacheWrite(s) ==
    /\ stask[s].pc = "cache_w"
    /\ cache' = CacheRecord(stask[s].pad)
    /\ stask' = [stask EXCEPT ![s] = [NewSaver EXCEPT !.failed = stask[s].failed]]
    /\ UNCHANGED <<evars, hvars, rvars, stream, store, worker, ctask, stopper, caller, env, hist>>

\* PadStore.save raises: Pad.save does not reach self.cache(), _save_pad
\* prints and returns False, and _periodic_save_to_db sleeps again.
\* (failed is history: the saves of this task that failed.  S_StoreFails_ends:
\* a _save_pad that lets the exception through, which ends the task.)
S_StoreFails_ends(s) ==
    /\ stask[s].pc = "store_w"
    /\ stask[s].failed < MaxSaveFaults
    /\ stask' = [stask EXCEPT ![s] = [NoSaver EXCEPT !.failed = stask[s].failed + 1]]
    /\ worker' = cleanup_save_task(worker)
    /\ UNCHANGED <<evars, hvars, rvars, stream, cache, store, ctask, stopper, caller, env,
                   hist>>

S_StoreFails(s) ==
    /\ stask[s].pc = "store_w"
    /\ stask[s].failed < MaxSaveFaults
    /\ stask' = [stask EXCEPT ![s] = [NewSaver EXCEPT !.failed = stask[s].failed + 1]]
    /\ UNCHANGED <<evars, hvars, rvars, stream, cache, store, worker, ctask, stopper, caller,
                   env, hist>>

(***************************************************************************)
(* A request handler's Pad.get_by_id (the hub's access check, an HTTP      *)
(* route).                                                                 *)
(***************************************************************************)
G_Read ==
    /\ caller.pc = "idle"
    /\ env.calls < MaxCalls
    /\ CanGetById(cache, worker, ctask, stask)
    /\ env' = [env EXCEPT !.calls = @ + 1]
    /\ LET r == GetByIdRead(cache, store, worker, ctask, stask)
       IN  /\ worker' = r.w
           /\ ctask' = r.ct
           /\ stask' = r.st
           /\ caller' = IF r.write
                        THEN [NoCaller EXCEPT !.pc = "ensure_w", !.pad = r.pad]
                        ELSE NoCaller
    /\ UNCHANGED <<evars, hvars, rvars, stream, cache, store, stopper, hist>>

G_Write ==
    /\ caller.pc = "ensure_w"
    /\ cache' = CacheRecord(caller.pad)
    /\ caller' = NoCaller
    /\ UNCHANGED <<evars, hvars, rvars, stream, store, worker, ctask, stask, stopper, env, hist>>

(***************************************************************************)
(* CanvasWorker.stop_processing_pad and _release_pad_worker.               *)
(***************************************************************************)
\* save_task.cancel(); await save_task
CancelSaver(w, st) ==
    IF w.save_task # 0
    THEN [w |-> cleanup_save_task(w), st |-> [st EXCEPT ![w.save_task] = NoSaver]]
    ELSE [w |-> w, st |-> st]

\* "Clean up task references"
PopTasks(w) == [w EXCEPT !.pad_task = 0, !.save_task = 0]

\* graceful: the pad leaves the active set, the periodic save task is
\* cancelled, and the final save starts.
K_Begin ==
    /\ stopper.pc = "idle"
    /\ PadId \in worker.active_pads
    /\ env.stops < MaxStops
    /\ env' = [env EXCEPT !.stops = @ + 1]
    /\ LET c == CancelSaver([worker EXCEPT !.active_pads = @ \ {PadId}], stask)
       IN  /\ worker' = c.w
           /\ stask' = c.st
    /\ stopper' = [NoStopper EXCEPT !.pc = "save_read"]
    /\ UNCHANGED <<evars, hvars, rvars, stream, cache, store, ctask, caller, hist>>

\* graceful=False: both tasks are cancelled, then the pad is discarded.
K_BeginImmediate ==
    /\ stopper.pc = "idle"
    /\ PadId \in worker.active_pads
    /\ env.stops < MaxStops
    /\ env' = [env EXCEPT !.stops = @ + 1]
    /\ LET c == CancelSaver(worker, stask)
           t == c.w.pad_task
       IN  /\ stask' = c.st
           /\ ctask' = IF t # 0 THEN [ctask EXCEPT ![t] = NoConsumer] ELSE ctask
           /\ worker' = PopTasks([c.w EXCEPT !.active_pads = @ \ {PadId}])
    /\ stopper' = [NoStopper EXCEPT !.pc = "rel_read", !.graceful = FALSE]
    /\ UNCHANGED <<evars, hvars, rvars, stream, cache, store, caller, hist>>

\* _save_pad: Pad.get_by_id ...
K_SaveRead ==
    /\ stopper.pc = "save_read"
    /\ CanGetById(cache, worker, ctask, stask)
    /\ LET r == GetByIdRead(cache, store, worker, ctask, stask)
       IN  /\ worker' = r.w
           /\ ctask' = r.ct
           /\ stask' = r.st
           /\ stopper' = [stopper EXCEPT !.pad = r.pad,
                  !.pc = IF r.write THEN "save_ensure_w" ELSE "save_store"]
    /\ UNCHANGED <<evars, hvars, rvars, stream, cache, store, caller, env, hist>>

K_SaveEnsureWrite ==
    /\ stopper.pc = "save_ensure_w"
    /\ cache' = CacheRecord(stopper.pad)
    /\ stopper' = [stopper EXCEPT !.pc = "save_store"]
    /\ UNCHANGED <<evars, hvars, rvars, stream, store, worker, ctask, stask, caller, env, hist>>

\* ... then Pad.save: the store ...
K_SaveStore ==
    /\ stopper.pc = "save_store"
    /\ store' = PadStoreSave(store, stopper.pad)
    /\ stopper' = [stopper EXCEPT !.pc = "save_cache"]
    /\ UNCHANGED <<evars, hvars, rvars, stream, cache, worker, ctask, stask, caller, env, hist>>

\* ... and the cache; then the consumer task, if still registered, is
\* awaited.
K_SaveCache ==
    /\ stopper.pc = "save_cache"
    /\ cache' = CacheRecord(stopper.pad)
    /\ IF worker.pad_task # 0
       THEN /\ stopper' = [stopper EXCEPT !.pc = "waiting", !.pad = NoPad,
                                          !.task = worker.pad_task]
            /\ worker' = worker
       ELSE /\ stopper' = [stopper EXCEPT !.pc = "rel_read", !.pad = NoPad]
            /\ worker' = PopTasks(worker)
    /\ UNCHANGED <<evars, hvars, rvars, stream, store, ctask, stask, caller, env, hist>>

\* The awaited task has ended.
K_WaitDone ==
    /\ stopper.pc = "waiting"
    /\ ctask[stopper.task].pc = "done"
    /\ ctask' = [ctask EXCEPT ![stopper.task] = NoConsumer]
    /\ worker' = PopTasks(worker)
    /\ stopper' = [stopper EXCEPT !.pc = "rel_read", !.task = 0]
    /\ UNCHANGED <<evars, hvars, rvars, stream, cache, store, stask, caller, env, hist>>

\* The 10 s have passed: the task is cancelled, its done callback runs.
K_WaitTimeout ==
    /\ stopper.pc = "waiting"
    /\ ctask[stopper.task].pc # "done"
    /\ ctask' = [ctask EXCEPT ![stopper.task] = NoConsumer]
    /\ worker' = PopTasks(cleanup_task(worker))
    /\ stopper' = [stopper EXCEPT !.pc = "rel_read", !.task = 0,
                                  !.timed_out = TRUE]
    /\ UNCHANGED <<evars, hvars, rvars, stream, cache, store, stask, caller, env, hist>>

\* _release_pad_worker: Pad.get_by_id, then the worker id is cleared if it
\* is this worker's.
K_RelRead ==
    /\ stopper.pc = "rel_read"
    /\ CanGetById(cache, worker, ctask, stask)
    /\ LET r == GetByIdRead(cache, store, worker, ctask, stask)
       IN  /\ worker' = r.w
           /\ ctask' = r.ct
           /\ stask' = r.st
           /\ stopper' =
                  IF r.write
                  THEN [stopper EXCEPT !.pc = "rel_ensure_w", !.pad = r.pad]
                  ELSE IF r.pad.worker_id = worker.worker_id
                  THEN [stopper EXCEPT !.pc = "rel_write",
                                       !.pad = [r.pad EXCEPT !.worker_id = PyNone]]
                  ELSE NoStopper
    /\ UNCHANGED <<evars, hvars, rvars, stream, cache, store, caller, env, hist>>

K_RelEnsureWrite ==
    /\ stopper.pc = "rel_ensure_w"
    /\ cache' = CacheRecord(stopper.pad)
    /\ stopper' = [stopper EXCEPT !.pc = "rel_write",
                                  !.pad = [@ EXCEPT !.worker_id = PyNone]]
    /\ UNCHANGED <<evars, hvars, rvars, stream, store, worker, ctask, stask, caller, env, hist>>

K_RelWrite ==
    /\ stopper.pc = "rel_write"
    /\ cache' = CacheRecord(stopper.pad)
    /\ stopper' = NoStopper
    /\ UNCHANGED <<evars, hvars, rvars, stream, store, worker, ctask, stask, caller, env, hist>>

(***************************************************************************)
(* The environment.                                                        *)
(***************************************************************************)
\* The TTL of the cache entry (CACHE_EXPIRY) runs out.
CacheExpire ==
    /\ cache.cached
    /\ env.expiries < MaxExpiries
    /\ env' = [env EXCEPT !.expiries = @ + 1]
    /\ cache' = NotCached
    /\ UNCHANGED <<evars, hvars, rvars, stream, store, worker, ctask, stask, stopper, caller, hist>>

\* The process dies and a new one starts: Redis and the database stay,
\* the CanvasWorker is a new one with a new worker id and no task.
Crash ==
    /\ env.crashes < MaxCrashes
    /\ env' = [env EXCEPT !.crashes = @ + 1, !.calls = 0, !.stops = 0]
    /\ worker' = NewWorker(env.crashes + 2)
    /\ ctask' = [t \in Tasks |-> NoConsumer]
    /\ stask' = [t \in Tasks |-> NoSaver]
    /\ stopper' = NoStopper
    /\ caller' = NoCaller
    /\ UNCHANGED <<evars, hvars, rvars, stream, cache, store, hist>>

(***************************************************************************)
(* The reconciler of one pad with its clients and its process.             *)
(***************************************************************************)
RIdle ==
    /\ server_elements = <<>>
    /\ prop_a = NoElem
    /\ prop_b = NoElem
    /\ discard_out = FALSE
    /\ out_ab = <<>>
    /\ out_ba = <<>>
    /\ rphase = "off"
    /\ merge = NoMerge
    /\ trip = NoTrip

Init == RIdle /\ SInit /\ EInit

SpecMerge == Init /\ [][MergeNext]_vars

\* The two tasks of a pad and a request handler's Pad.get_by_id.
TaskStep ==
    \/ \E t \in Tasks : C_Loop(t)
    \/ \E t \in Tasks : C_XreadReturn(t)
    \/ \E s \in Tasks : S_Wake(s)
    \/ \E s \in Tasks : S_EnsureWrite(s)
    \/ \E s \in Tasks : S_StoreWrite(s)
    \/ \E s \in Tasks : S_CacheWrite(s)
    \/ G_Read
    \/ G_Write

MessageStep ==
    \/ \E t \in Tasks : C_Message(t)
    \/ \E t \in Tasks : C_EnsureWrite(t)
    \/ \E t \in Tasks : C_CacheWrite(t)

StopStep ==
    \/ K_Begin
    \/ K_BeginImmediate
    \/ K_SaveRead
    \/ K_SaveEnsureWrite
    \/ K_SaveStore
    \/ K_SaveCache
    \/ K_WaitDone
    \/ K_WaitTimeout
    \/ K_RelRead
    \/ K_RelEnsureWrite
    \/ K_RelWrite

\* SpecScene: a pad in service; clients publish, the consumer reconciles,
\* the periodic save persists.
SceneNext == Publish(MaxEvents) \/ TaskStep \/ MessageStep

SpecScene == Init /\ [][SceneNext]_vars

\* LiveSpec: a pad in service with the event loop running the consumer
\* task and the save task whenever they are ready; clients publish when
\* they like.  The cache entry does not expire while the pad is in
\* service: every save rewrites it with a fresh TTL, and SAVE_INTERVAL
\* (300 s) is shorter than CACHE_EXPIRY (3600 s).
ConsumerStep ==
    \E t \in Tasks :
        C_Loop(t) \/ C_XreadReturn(t) \/ C_Message(t) \/ C_EnsureWrite(t)
            \/ C_CacheWrite(t)

SaverStep ==
    \E s \in Tasks :
        S_Wake(s) \/ S_EnsureWrite(s) \/ S_StoreWrite(s) \/ S_CacheWrite(s)

TaskFairness ==
    /\ WF_vars(ConsumerStep)
    /\ WF_vars(SaverStep)
    /\ WF_vars(G_Write)

LiveNext == Publish(MaxStopEvents) \/ TaskStep \/ MessageStep

LiveSpec == Init /\ [][LiveNext]_vars /\ TaskFairness

\* SpecStop: the same with stop_processing_pad.
StopNext == Publish(MaxStopEvents) \/ TaskStep \/ MessageStep \/ StopStep

SpecStop == Init /\ [][StopNext]_vars

\* SpecDrain: a pad in service is stopped gracefully while the clients
\* publish MaxDrainEvents events; the periodic save, due every
\* SAVE_INTERVAL (300 s), does not wake in that time.  At the start the
\* stream holds an event published before the pad was put in service
\* (the state SpecScene is in after Publish, G_Read and G_Write), and no
\* request handler calls Pad.get_by_id during the run.
DrainFrames ==
    {[type |-> "scene_update",
      data |-> [elements |-> <<[id |-> "e1", version |-> 1, versionNonce |-> 1,
                                index |-> "a0"]>>]]}

DrainInit ==
    /\ RIdle
    /\ EInit
    /\ LET e == CHOOSE f \in DrainFrames : TRUE
           r == start_processing_pad(NewWorker(1), [t \in Tasks |-> NoConsumer],
                                     [t \in Tasks |-> NoSaver])
       IN  /\ stream = <<StreamEntry(processed_message(UserOf["c1"], "c1", e))>>
           /\ meta = <<[by |-> "c1", reading |-> {}]>>
           /\ worker = r.w
           /\ ctask = [r.ct EXCEPT ![r.w.pad_task].born = 1]
           /\ stask = r.st
    /\ cache = CacheRecord([data |-> EmptyData, worker_id |-> WorkerIds[1]])
    /\ store = [data |-> EmptyData]
    /\ stopper = NoStopper
    /\ caller = NoCaller
    /\ env = [stops |-> 0, calls |-> MaxCalls, expiries |-> 0, crashes |-> 0]
    /\ hist = [processed |-> {}, watched |-> {}]
    /\ fwd = [c \in Conns |-> NoForwarder]
    /\ ptr = [c \in Conns |-> NoPointer]
    /\ sock = [c \in Conns |-> {}]
    /\ pcount = 0

DrainNext ==
    \/ PublishFrom(DrainFrames, {"c1"}, 1 + MaxDrainEvents)
    \/ \E t \in Tasks : C_Loop(t)
    \/ \E t \in Tasks : C_XreadReturn(t)
    \/ \E t \in Tasks : C_Message(t)
    \/ \E t \in Tasks : C_CacheWrite(t)
    \/ K_Begin
    \/ K_SaveRead
    \/ K_SaveStore
    \/ K_SaveCache
    \/ K_WaitDone
    \/ K_WaitTimeout
    \/ K_RelRead
    \/ K_RelWrite

SpecDrain == DrainInit /\ [][DrainNext]_vars

\* SpecRelease: start and stop of a pad nobody is editing, with a second
\* server process on the same Redis and database in which a request
\* handler calls Pad.get_by_id.
PeerWorkerId == "w9"

\* Pad.get_by_id in the other process, up to its first await on a cache
\* write: the read of the cache (or of the store on a miss), then
\* ensure_worker, which starts that process's tasks and takes the pad for
\* its worker when the record names no worker.
O_Read ==
    /\ peer.pc = "idle"
    /\ peer.calls < MaxPeerCalls
    /\ LET pad0 == IF cache.cached THEN from_redis(cache) ELSE from_store(store)
       IN  peer' = IF HasWorker(pad0, worker)
                   THEN [peer EXCEPT !.calls = @ + 1]
                   ELSE [pc |-> "ensure_w",
                         pad |-> [pad0 EXCEPT !.worker_id = PeerWorkerId],
                         calls |-> peer.calls + 1]
    /\ UNCHANGED <<rvars, svars, hvars, sess, presence, acl, probe, inb>>

\* ensure_worker's pad.cache() in the other process.
O_Write ==
    /\ peer.pc = "ensure_w"
    /\ cache' = CacheRecord(peer.pad)
    /\ peer' = [peer EXCEPT !.pc = "idle", !.pad = NoPad]
    /\ UNCHANGED <<rvars, hvars, stream, store, worker, ctask, stask, stopper,
                   caller, env, hist, sess, presence, acl, probe, inb>>

ReleaseNext == TaskStep \/ StopStep \/ O_Read \/ O_Write

SpecRelease == Init /\ [][ReleaseNext]_vars

\* SpecLife: start, stop, cache expiry and process restart of a pad
\* nobody is editing.
LifeNext == TaskStep \/ StopStep \/ CacheExpire \/ Crash

\* SpecAppState: the pad in service, the clients sending appState updates.
AppStates == {{}, {<<"zoom", 1>>, <<"theme", 1>>}, {<<"zoom", 2>>}}

\* The frames of a well-behaved client ...
PlainAppFrames ==
    {[type |-> "appstate_update", data |-> [appState |-> a]] : a \in AppStates}

\* ... and those of a client that fills in the envelope itself, naming
\* u3, a user who is not connected, as the sender.
AppFrames ==
    {[type |-> "appstate_update", data |-> [appState |-> a], user_id |-> "u3",
      pad_id |-> "p2", connection_id |-> "c9", timestamp |-> "then"] :
          a \in AppStates}

AppNext == PublishFrom(AppFrames, Conns, MaxAppEvents) \/ TaskStep \/ MessageStep

\* The pad holds an element saved in an earlier session.
AppInit ==
    /\ RIdle
    /\ EInit
    /\ SInitWith([elements |-> <<[id |-> "e1", version |-> 1, versionNonce |-> 1,
                                  index |-> "a0"]>>])

SpecAppState == AppInit /\ [][AppNext]_vars

\* SpecFiles: the pad holds an element and an image file; the clients send
\* scene updates that carry a files dict, an elements list or both.
FileMaps == {{}, {<<"f1", 1>>}, {<<"f1", 1>>, <<"f2", 1>>}}

FilesElement == [id |-> "e1", version |-> 2, versionNonce |-> 1, index |-> "a0"]

\* An element that loses against the stored one on the nonce.
StaleElement == [id |-> "e1", version |-> 1, versionNonce |-> 2, index |-> "a0"]

FileFrames ==
    {[type |-> "scene_update", data |-> [files |-> m]] : m \in FileMaps}
    \cup {[type |-> "scene_update", data |-> [elements |-> <<FilesElement>>, files |-> m]] :
              m \in FileMaps}
    \cup {[type |-> "scene_update", data |-> [elements |-> <<FilesElement>>]]}

FilesNext == PublishFrom(FileFrames, {"c1"}, MaxFileEvents) \/ TaskStep \/ MessageStep

FilesInit ==
    /\ RIdle
    /\ EInit
    /\ SInitWith([elements |-> <<[id |-> "e1", version |-> 1, versionNonce |-> 1,
                                  index |-> "a0"]>>,
                  files |-> {<<"f1", 1>>}])

SpecFiles == FilesInit /\ [][FilesNext]_vars

\* SpecIgnore: the same pad; the stream carries the events the endpoint
\* publishes itself, a client-invented type with a full scene as data,
\* updates whose data is the empty dict, and real updates.
EmptyDict == [k \in {} |-> 0]

FullScene ==
    [elements |-> <<FilesElement>>,
     files |-> {<<"f1", 1>>, <<"f2", 1>>},
     appState |-> {<<"zoom", 2>>}]

IgnoreFrames ==
    { [type |-> "user_joined", data |-> [username |-> "u1"]],
      [type |-> "user_left", data |-> EmptyDict],
      [type |-> "force_disconnect", data |-> [reason |-> "denied"]],
      [type |-> "bogus", data |-> FullScene],
      [type |-> "scene_update", data |-> EmptyDict],
      [type |-> "appstate_update", data |-> EmptyDict],
      [type |-> "scene_update", data |-> FullScene],
      [type |-> "appstate_update", data |-> FullScene] }

IgnoreNext ==
    \/ PublishFrom(IgnoreFrames, {"c1"}, MaxIgnoreEvents)
    \/ \E t \in Tasks : C_Loop(t)
    \/ \E t \in Tasks : C_XreadReturn(t)
    \/ MessageStep
    \/ G_Read
    \/ G_Write

SpecIgnore == FilesInit /\ [][IgnoreNext]_vars

(***************************************************************************)
(* SpecCache: Pad.cache followed by Pad.from_redis, field by field.  The   *)
(* hash holds strings: str(uuid) is modelled as [str |-> uuid] and         *)
(* json.dumps(v) as [json |-> v], read back by UUID(...) and json.loads;   *)
(* the pad's data is a JSON value (it comes from the store's JSON column   *)
(* or from a client frame), so json.loads gives back what was dumped.      *)
(***************************************************************************)
Str(v) == [str |-> v]
UUID(s) == s.str
JsonDumps(v) == [json |-> v]
JsonLoads(s) == s.json

\* str.strip() on the worker ids of the model.
Strip(s) == IF s = " " THEN "" ELSE s

\* The Pad objects: a pad as Pad.__init__ leaves it (data, sharing_policy
\* and whitelist never None), with no worker id (None, or the '' or blank
\* read from a hash) or with one.
TripPads ==
    [id : {PadId},
     owner_id : {"u1", "u2"},
     display_name : {"", "Untitled"},
     data : {EmptyDict, FullScene},
     sharing_policy : Policies,
     whitelist : {<<>>, <<"u2">>, <<"u2", "u3">>, <<"u3", "u2">>},
     worker_id : {PyNone, "", " ", "w1"}]

\* cache_data in Pad.cache.  (cache_data_str: a mapping that would store
\* str(self.worker_id), the text 'None' for no worker.)
cache_data_str(pad) ==
    [id |-> Str(pad.id),
     owner_id |-> Str(pad.owner_id),
     display_name |-> pad.display_name,
     data |-> JsonDumps(pad.data),
     sharing_policy |-> pad.sharing_policy,
     whitelist |-> IF pad.whitelist # <<>>
                   THEN JsonDumps([i \in 1..Len(pad.whitelist) |-> Str(pad.whitelist[i])])
                   ELSE JsonDumps(<<>>),
     worker_id |-> IF pad.worker_id = PyNone THEN "None" ELSE pad.worker_id]

cache_data(pad) ==
    [id |-> Str(pad.id),
     owner_id |-> Str(pad.owner_id),
     display_name |-> pad.display_name,
     data |-> JsonDumps(pad.data),
     sharing_policy |-> pad.sharing_policy,
     whitelist |-> IF pad.whitelist # <<>>
                   THEN JsonDumps([i \in 1..Len(pad.whitelist) |-> Str(pad.whitelist[i])])
                   ELSE JsonDumps(<<>>),
     worker_id |-> IF Truthy(pad.worker_id) THEN pad.worker_id ELSE ""]

\* Pad.from_redis on the hash, and Pad.__init__ on what it read.
pad_from_cached_data(cached_data) ==
    LET data == JsonLoads(cached_data.data)
        sharing_policy == Get(cached_data, "sharing_policy", "private")
        whitelist_str == Get(cached_data, "whitelist", JsonDumps(<<>>))
        uids == JsonLoads(whitelist_str)
        whitelist == [i \in 1..Len(uids) |-> UUID(uids[i])]
    IN  [id |-> UUID(cached_data.id),
         owner_id |-> UUID(cached_data.owner_id),
         display_name |-> cached_data.display_name,
         data |-> IF DOMAIN data = {} THEN EmptyDict ELSE data,
         sharing_policy |-> IF sharing_policy = "" THEN "private" ELSE sharing_policy,
         whitelist |-> whitelist,
         worker_id |-> Get(cached_data, "worker_id", PyNone)]

\* The test that opens Pad.ensure_worker: a worker is assigned already.
worker_assigned(pad) == Truthy(pad.worker_id) /\ Strip(pad.worker_id) # ""

\* A Pad object is cached ...
T_Cache ==
    /\ trip.pc = "idle"
    /\ \E pad \in TripPads :
           trip' = [pc |-> "cached", pad |-> pad, hash |-> cache_data(pad)]
    /\ UNCHANGED <<server_elements, prop_a, prop_b, discard_out, out_ab, out_ba,
                   rphase, merge, svars, hvars, evars>>

\* ... and read back by Pad.get_by_id: from_redis, then ensure_worker.
T_FromRedis ==
    /\ trip.pc = "cached"
    /\ LET back == pad_from_cached_data(trip.hash)
       IN  trip' = [pc |-> "read", pad |-> trip.pad, hash |-> trip.hash,
                    back |-> back, assigned |-> worker_assigned(back)]
    /\ UNCHANGED <<server_elements, prop_a, prop_b, discard_out, out_ab, out_ba,
                   rphase, merge, svars, hvars, evars>>

T_Done ==
    /\ trip.pc = "read"
    /\ trip' = NoTrip
    /\ UNCHANGED <<server_elements, prop_a, prop_b, discard_out, out_ab, out_ba,
                   rphase, merge, svars, hvars, evars>>

CacheTripNext == T_Cache \/ T_FromRedis \/ T_Done

SpecCache == Init /\ [][CacheTripNext]_vars

\* SpecWrite: the same pad; the updates either change something (a new
\* files map, a winning element) or nothing (the files map the pad has,
\* an element that loses).
WriteFrames ==
    {[type |-> "scene_update", data |-> [files |-> m]] :
        m \in {{<<"f1", 1>>}, {<<"f1", 1>>, <<"f2", 1>>}}}
    \cup {[type |-> "scene_update", data |-> [elements |-> <<e>>]] :
              e \in {FilesElement, StaleElement}}

WriteNext == PublishFrom(WriteFrames, {"c1"}, MaxWriteEvents) \/ TaskStep \/ MessageStep

SpecWrite == FilesInit /\ [][WriteNext]_vars

\* SpecSaveFail: the same pad and updates; PadStore.save can fail.
SaveFailNext ==
    \/ PublishFrom(WriteFrames, {"c1"}, MaxSaveEvents)
    \/ TaskStep
    \/ MessageStep
    \/ \E s \in Tasks : S_StoreFails(s)

SpecSaveFail == FilesInit /\ [][SaveFailNext]_vars

\* SpecFault: the same pad and the updates of SpecWrite; _process_message
\* and xread can raise.
FaultNext ==
    \/ PublishFrom(WriteFrames, {"c1"}, MaxFaultEvents)
    \/ \E t \in Tasks : C_Loop(t)
    \/ \E t \in Tasks : C_XreadReturn(t)
    \/ \E t \in Tasks : C_XreadRaises(t)
    \/ \E t \in Tasks : C_MessageRaises(t)
    \/ MessageStep
    \/ G_Read
    \/ G_Write

SpecFault == FilesInit /\ [][FaultNext]_vars

SpecLife == Init /\ [][LifeNext]_vars


(***************************************************************************)
(* The WebSocket hub: websocket_endpoint, _handle_received_data and the    *)
(* two forwarders of every connection.  A connection id is a fresh uuid,   *)
(* so a connection is accepted once and closed once.                       *)
(***************************************************************************)
\* What a client may put into a frame: a type, and a connection_id of its
\* own choosing or none.
HubFrames ==
    {[type |-> ty, connection_id |-> c] :
        ty \in {"scene_update", "pointer_update"}, c \in Conns \cup {PyNone}}

\* publish_event_to_redis of msg, published by connection c: XADD appends
\* the entry at the end of the stream (the run stops at bound entries).
XAddUpTo(bound, c, msg) ==
    /\ Len(stream) < bound
    /\ stream' = Append(stream, StreamEntry(msg))
    /\ meta' = Append(meta, [by |-> c, reading |-> Reading])

XAdd(c, msg) == XAddUpTo(MaxHubEvents, c, msg)

\* The user_joined event of connection c.
Joined(c) == [type |-> "user_joined", connection_id |-> c, data |-> [username |-> "u"]]

\* websocket_endpoint up to the creation of its tasks: the user_joined
\* event, then the forwarders start, the durable one with last_id='$'.
H_Connect(c) ==
    /\ fwd[c].pc = "new"
    /\ XAdd(c, Joined(c))
    /\ fwd' = [fwd EXCEPT ![c] = [NoForwarder EXCEPT !.pc = "loop"]]
    /\ ptr' = [ptr EXCEPT ![c] = [NoPointer EXCEPT !.pc = "start"]]
    /\ UNCHANGED <<evars, rvars, wvars, sock, pcount>>

\* The routing test of _handle_received_data.  (IsPointer_never: a hub
\* that would send every frame to the stream.)
IsPointer_never(msg) == FALSE

IsPointer(msg) == msg.type = "pointer_update"

\* The connections subscribed to the pad's pointer channel: PUBLISH hands
\* a message to them and to nobody else.  (Subscribers_early: a channel
\* that would keep a message for a task that is about to subscribe.)
Subscribers_early == {d \in Conns : ptr[d].pc \in {"start", "sub"}}

Subscribers == {d \in Conns : ptr[d].pc = "sub"}

\* _handle_received_data for a frame f that json.loads turned into a dict:
\* pointer updates go to the pub/sub channel, whose subscribers of the
\* moment each get a copy; all else goes to the stream.
Handle(bound, pbound, c, f) ==
    LET msg == processed_message(UserOf[c], c, f)
    IN  IF IsPointer(msg)
        THEN /\ pcount < pbound
             /\ pcount' = pcount + 1
             /\ ptr' = [d \in Conns |->
                           IF d \in Subscribers
                           THEN [ptr[d] EXCEPT !.inbox =
                                    Append(@, [msg |-> msg, by |-> c,
                                               n |-> pcount + 1])]
                           ELSE ptr[d]]
             /\ UNCHANGED <<stream, meta>>
        ELSE /\ XAddUpTo(bound, c, msg)
             /\ UNCHANGED <<ptr, pcount>>

\* handle_websocket_messages: a frame of frames arrives on c's socket and
\* goes through _handle_received_data.  The loop awaits
\* _handle_received_data before it receives the next frame.
ReceiveFrom(frames, bound, pbound, c) ==
    /\ fwd[c].pc \in {"loop", "xread", "msg"}
    /\ \E f \in frames : Handle(bound, pbound, c, f)
    /\ UNCHANGED <<evars, rvars, wvars, fwd, sock>>

Receive(bound, c) == ReceiveFrom(HubFrames, bound, MaxPointers, c)

H_Receive(c) == Receive(MaxHubEvents, c)

\* consume_redis_stream: XREAD with last_id.
F_Loop(c) ==
    /\ fwd[c].pc = "loop"
    /\ fwd' = [fwd EXCEPT ![c].pc = "xread",
                          ![c].cursor = ResolveId(fwd[c].last_id, stream)]
    /\ UNCHANGED <<evars, rvars, svars, ptr, sock, meta, pcount>>

\* XREAD returns entries, or nothing after the block time.
F_XreadReturn(c) ==
    /\ fwd[c].pc = "xread"
    /\ LET ids == XreadIds(fwd[c].cursor, stream)
       IN  fwd' = [fwd EXCEPT ![c].batch = ids,
                              ![c].pc = IF ids # <<>> THEN "msg" ELSE "loop"]
    /\ UNCHANGED <<evars, rvars, svars, ptr, sock, meta, pcount>>

\* The filter of consume_redis_stream.
forward_to(entry, c) == Get(entry, "connection_id", PyNone) # c

\* One entry of the batch: sent unless it carries this connection's id;
\* then last_id = message_id.
F_Message(c) ==
    /\ fwd[c].pc = "msg"
    /\ LET i == Head(fwd[c].batch)
           rest == Tail(fwd[c].batch)
       IN  /\ sock' = IF forward_to(stream[i], c)
                      THEN [sock EXCEPT ![c] = @ \cup
                               {[via |-> "stream", n |-> i, by |-> meta[i].by]}]
                      ELSE sock
           /\ fwd' = [fwd EXCEPT ![c].last_id = i,
                                 ![c].batch = rest,
                                 ![c].pc = IF rest # <<>> THEN "msg" ELSE "loop"]
    /\ UNCHANGED <<evars, rvars, svars, ptr, meta, pcount>>

\* consume_pointer_updates: pubsub.subscribe(channel).
P_Subscribe(c) ==
    /\ ptr[c].pc = "start"
    /\ ptr' = [ptr EXCEPT ![c].pc = "sub"]
    /\ UNCHANGED <<evars, rvars, svars, fwd, sock, meta, pcount>>

\* pubsub.get_message returns a message: sent unless it carries this
\* connection's id.
P_Message(c) ==
    /\ ptr[c].pc = "sub"
    /\ ptr[c].inbox # <<>>
    /\ LET item == Head(ptr[c].inbox)
       IN  sock' = IF forward_to(item.msg, c)
                   THEN [sock EXCEPT ![c] = @ \cup
                            {[via |-> "pointer", n |-> item.n, by |-> item.by]}]
                   ELSE sock
    /\ ptr' = [ptr EXCEPT ![c].inbox = Tail(@)]
    /\ UNCHANGED <<evars, rvars, svars, fwd, meta, pcount>>

\* The socket closes: the tasks are cancelled, then the user_left event.
H_Disconnect(c) ==
    /\ fwd[c].pc \in {"loop", "xread", "msg"}
    /\ XAdd(c, [type |-> "user_left", connection_id |-> c, data |-> [empty |-> TRUE]])
    /\ fwd' = [fwd EXCEPT ![c] = [NoForwarder EXCEPT !.pc = "closed"]]
    /\ ptr' = [ptr EXCEPT ![c] = [NoPointer EXCEPT !.pc = "closed"]]
    /\ UNCHANGED <<evars, rvars, wvars, sock, pcount>>

HubNext ==
    \E c \in Conns :
        \/ H_Connect(c)
        \/ H_Receive(c)
        \/ F_Loop(c)
        \/ F_XreadReturn(c)
        \/ F_Message(c)
        \/ P_Subscribe(c)
        \/ P_Message(c)
        \/ H_Disconnect(c)

SpecHub == Init /\ [][HubNext]_vars

(***************************************************************************)
(* SpecOrder: the hub from the moment both connections have been accepted  *)
(* and have subscribed to the pointer channel (the state SpecHub is in     *)
(* after H_Connect of c1, then of c2, then P_Subscribe of both), with room *)
(* for MaxOrderEvents further entries.                                     *)
(***************************************************************************)
OrderInit ==
    /\ RIdle
    /\ EInit
    /\ cache = NotCached
    /\ store = [data |-> EmptyData]
    /\ worker = NewWorker(1)
    /\ ctask = [t \in Tasks |-> NoConsumer]
    /\ stask = [t \in Tasks |-> NoSaver]
    /\ stopper = NoStopper
    /\ caller = NoCaller
    /\ env = [stops |-> 0, calls |-> 0, expiries |-> 0, crashes |-> 0]
    /\ hist = [processed |-> {}, watched |-> {}]
    /\ stream = <<StreamEntry(Joined("c1")), StreamEntry(Joined("c2"))>>
    /\ meta = <<[by |-> "c1", reading |-> {}], [by |-> "c2", reading |-> {}]>>
    /\ fwd = [c \in Conns |-> [NoForwarder EXCEPT !.pc = "loop"]]
    /\ ptr = [c \in Conns |-> [NoPointer EXCEPT !.pc = "sub"]]
    /\ sock = [c \in Conns |-> {}]
    /\ pcount = 0

OrderNext ==
    \E c \in Conns :
        \/ Receive(2 + MaxOrderEvents, c)
        \/ F_Loop(c)
        \/ F_XreadReturn(c)
        \/ F_Message(c)
        \/ P_Message(c)
        \/ H_Disconnect(c)

SpecOrder == OrderInit /\ [][OrderNext]_vars

(***************************************************************************)
(* SpecPointer: the pointer channel, with connections that come, subscribe *)
(* and go while MaxPointerEvents pointer updates are published.            *)
(***************************************************************************)
PointerNext ==
    \E c \in Conns :
        \/ H_Connect(c)
        \/ ReceiveFrom(HubFrames, MaxHubEvents, MaxPointerEvents, c)
        \/ P_Subscribe(c)
        \/ P_Message(c)
        \/ H_Disconnect(c)

SpecPointer == Init /\ [][PointerNext]_vars

(***************************************************************************)
(* SpecInbound: handle_websocket_messages with clients that send whatever  *)
(* they like: text that is not JSON, JSON that is not an object, frames    *)
(* without a type or with a type of their own invention, and frames of     *)
(* the types the server sends.                                             *)
(***************************************************************************)
\* Text that json.loads rejects, and JSON text that is not an object.
NotJson == [not_json |-> TRUE]
NotDict == [not_dict |-> TRUE]

InboundFrames ==
    {[type |-> ty, data |-> [elements |-> <<>>]] :
        ty \in {"scene_update", "pointer_update", "connected", "bogus"}}
    \cup {[data |-> [elements |-> <<>>]], NotJson, NotDict}

\* json.loads(raw_data) returns, and what it returns has a get method.
IsJsonDict(f) == f # NotJson /\ f # NotDict

\* data = await websocket.receive_text()
I_Receive(c) ==
    /\ fwd[c].pc \in {"loop", "xread", "msg"}
    /\ inb[c].pc = "recv"
    /\ \E f \in InboundFrames :
           inb' = [inb EXCEPT ![c].pc = "handle", ![c].frame = f]
    /\ UNCHANGED <<rvars, svars, hvars, sess, presence, acl, probe, peer>>

\* await _handle_received_data(data, ...): JSONDecodeError and every other
\* exception are caught inside it and printed, so the except clauses of
\* handle_websocket_messages for them are never entered; the loop goes
\* back to receive_text.
I_Handle(c) ==
    /\ fwd[c].pc \in {"loop", "xread", "msg"}
    /\ inb[c].pc = "handle"
    /\ IF IsJsonDict(inb[c].frame)
       THEN Handle(MaxHubEvents, MaxPointers, c, inb[c].frame)
       ELSE UNCHANGED <<stream, meta, ptr, pcount>>
    /\ inb' = [inb EXCEPT ![c] = NoInbound]
    /\ UNCHANGED <<rvars, wvars, fwd, sock, sess, presence, acl, probe, peer>>

InboundNext ==
    \E c \in Conns :
        \/ H_Connect(c)
        \/ I_Receive(c)
        \/ I_Handle(c)
        \/ P_Subscribe(c)
        \/ P_Message(c)
        \/ H_Disconnect(c)

SpecInbound == Init /\ [][InboundNext]_vars

(***************************************************************************)
(* SpecSendFail: the hub with sockets whose send_text may raise.  Both     *)
(* forwarders call send_text inside a try whose except clause prints the   *)
(* exception; the loop goes on with the next entry.  (The loop tests,      *)
(* websocket.client_state.CONNECTED, read a member of the enum through an  *)
(* instance and are always true.)                                          *)
(***************************************************************************)
\* consume_redis_stream: send_text raises for an entry of another
\* connection; then last_id = message_id.
F_SendFails(c) ==
    /\ fwd[c].pc = "msg"
    /\ forward_to(stream[Head(fwd[c].batch)], c)
    /\ LET i == Head(fwd[c].batch)
           rest == Tail(fwd[c].batch)
       IN  fwd' = [fwd EXCEPT ![c].last_id = i,
                              ![c].batch = rest,
                              ![c].pc = IF rest # <<>> THEN "msg" ELSE "loop"]
    /\ inb' = [inb EXCEPT ![c].failed = TRUE]
    /\ UNCHANGED <<rvars, svars, ptr, sock, meta, pcount, sess, presence, acl,
                   probe, peer>>

\* consume_pointer_updates: send_text raises for a message of another
\* connection.
P_SendFails(c) ==
    /\ ptr[c].pc = "sub"
    /\ ptr[c].inbox # <<>>
    /\ forward_to(Head(ptr[c].inbox).msg, c)
    /\ ptr' = [ptr EXCEPT ![c].inbox = Tail(@)]
    /\ inb' = [inb EXCEPT ![c].failed = TRUE]
    /\ UNCHANGED <<rvars, svars, fwd, sock, meta, pcount, sess, presence, acl,
                   probe, peer>>

\* The forwarders of connection c.
ForwarderStep(c) ==
    \/ F_Loop(c)
    \/ F_XreadReturn(c)
    \/ F_Message(c)
    \/ P_Subscribe(c)
    \/ P_Message(c)

SendFailNext ==
    \E c \in Conns :
        \/ H_Connect(c)
        \/ H_Receive(c)
        \/ ForwarderStep(c)
        \/ F_SendFails(c)
        \/ P_SendFails(c)
        \/ H_Disconnect(c)

SpecSendFail == Init /\ [][SendFailNext]_vars

\* SpecReadFail: the hub when a forwarder's xread can raise.
\* consume_redis_stream: "except Exception" around the whole loop body,
\* a print, and return.
F_XreadRaises(c) ==
    /\ fwd[c].pc = "xread"
    /\ fwd' = [fwd EXCEPT ![c].pc = "returned"]
    /\ UNCHANGED <<evars, rvars, svars, ptr, sock, meta, pcount>>

\* websocket_endpoint: asyncio.wait(..., FIRST_COMPLETED) returns because
\* redis_task is done; the pending tasks are cancelled and the finally
\* block publishes user_left and closes the connection.
H_TaskDone(c) ==
    /\ fwd[c].pc = "returned"
    /\ XAdd(c, [type |-> "user_left", connection_id |-> c, data |-> [empty |-> TRUE]])
    /\ fwd' = [fwd EXCEPT ![c] = [NoForwarder EXCEPT !.pc = "closed"]]
    /\ ptr' = [ptr EXCEPT ![c] = [NoPointer EXCEPT !.pc = "closed"]]
    /\ UNCHANGED <<evars, rvars, wvars, sock, pcount>>

ReadFailNext ==
    \E c \in Conns :
        \/ H_Connect(c)
        \/ H_Receive(c)
        \/ ForwarderStep(c)
        \/ F_XreadRaises(c)
        \/ H_TaskDone(c)
        \/ H_Disconnect(c)

SpecReadFail == Init /\ [][ReadFailNext]_vars

\* The event loop runs the forwarders whenever they are ready; when a
\* client closes its socket is the client's affair.
SendFailLive == SpecSendFail /\ \A c \in Conns : WF_vars(ForwarderStep(c))

(***************************************************************************)
(* SpecSession: websocket_endpoint from the request to the teardown, with  *)
(* the presence hash and the periodic access check.  Every await on Redis  *)
(* is a step boundary.  The pad is shared by whitelist with u2; its owner  *)
(* u1 may take u2 off the whitelist at any time.                           *)
(***************************************************************************)
\* Who a session cookie can resolve to (get_ws_user returns None when it
\* resolves to nobody).
SessionUsers == {"u1", "u2"}

SharedAcl == add_to_whitelist(set_sharing_policy(NewAcl("u1"), "whitelist"), "u2")

\* PadAccess()(pad_id, user, session): raises HTTPException unless the
\* user may access the pad.  TRUE: no exception.
PadAccess(pad, user_id) == can_access(pad, user_id)

\* The events websocket_endpoint and periodic_auth_check publish: a
\* WebSocketMessage of the connection, stamped with its user.
SessionEvent(ty, c, u, data) ==
    [type |-> ty, pad_id |-> PadId, user_id |-> u, connection_id |-> c,
     data |-> data]

\* The stream has room for every event the sessions can publish.
SessionEvents == 3 * Cardinality(Conns)

SessionInit ==
    /\ RIdle
    /\ SInit
    /\ sess = [c \in Conns |-> NoSession]
    /\ presence = [u \in AllUsers |-> <<>>]
    /\ acl = SharedAcl
    /\ probe = NoProbe
    /\ XInit

\* The connection ids of a presence entry.
Ids(list) == {list[k] : k \in 1..Len(list)}

\* list.remove(x)
RECURSIVE ListRemove(_, _)
ListRemove(list, x) ==
    IF list = <<>> THEN <<>>
    ELSE IF Head(list) = x THEN Tail(list)
    ELSE <<Head(list)>> \o ListRemove(Tail(list), x)

\* add_connection between its hget and its hset: the entry to write, from
\* the entry read (<<>>: the user has no entry).
add_connection(user_data, connection_id) ==
    IF user_data # <<>>
    THEN IF connection_id \notin Ids(user_data)
         THEN Append(user_data, connection_id)
         ELSE user_data
    ELSE <<connection_id>>

\* remove_connection between its hget and its hset or hdel: the entry to
\* write, <<>> for hdel.
remove_connection(user_data, connection_id) ==
    IF connection_id \in Ids(user_data)
    THEN ListRemove(user_data, connection_id)
    ELSE user_data

\* "if not user" at the top of websocket_endpoint, negated.
\* (Authenticated_anyone: an endpoint that would not test the user.)
Authenticated_anyone(user) == TRUE

Authenticated(user) == user # PyNone

\* The dependency get_ws_user, then the test of its result: close(4001)
\* when there is no user.
E_Auth(c) ==
    /\ sess[c].pc = "new"
    /\ \E u \in SessionUsers \cup {PyNone} :
           sess' = [sess EXCEPT ![c] =
                       IF ~Authenticated(u)
                       THEN [@ EXCEPT !.pc = "rejected", !.code = "4001"]
                       ELSE [@ EXCEPT !.pc = "access", !.user = u]]
    /\ UNCHANGED <<rvars, svars, hvars, presence, acl, probe, inb, peer>>

\* The initial access check: close(e.status_code) on denial, else accept
\* and a fresh connection id.
E_Access(c) ==
    /\ sess[c].pc = "access"
    /\ sess' = [sess EXCEPT ![c] =
                   IF PadAccess(acl, sess[c].user)
                   THEN [@ EXCEPT !.pc = "add_r"]
                   ELSE [@ EXCEPT !.pc = "rejected", !.code = "status_code"]]
    /\ UNCHANGED <<rvars, svars, hvars, presence, acl, probe, inb, peer>>

\* add_connection: hget of the user's entry ...
A_Read(c) ==
    /\ sess[c].pc = "add_r"
    /\ sess' = [sess EXCEPT ![c].pc = "add_w",
                            ![c].held = presence[sess[c].user]]
    /\ UNCHANGED <<rvars, svars, hvars, presence, acl, probe, inb, peer>>

\* ... and hset of the entry with the connection id added.
A_Write(c) ==
    /\ sess[c].pc = "add_w"
    /\ presence' = [presence EXCEPT ![sess[c].user] =
                       add_connection(sess[c].held, c)]
    /\ sess' = [sess EXCEPT ![c].pc = "hello", ![c].held = <<>>]
    /\ UNCHANGED <<rvars, svars, hvars, acl, probe, inb, peer>>

\* get_connected_users and the "connected" frame, sent to the socket.
E_Hello(c) ==
    /\ sess[c].pc = "hello"
    /\ sock' = [sock EXCEPT ![c] = @ \cup {[via |-> "hello", n |-> 0, by |-> "server"]}]
    /\ sess' = [sess EXCEPT ![c].pc = "join"]
    /\ UNCHANGED <<rvars, svars, fwd, ptr, meta, pcount, presence, acl, probe, inb, peer>>

\* The client has gone already: send_text raises, the finally block runs.
E_HelloFails(c) ==
    /\ sess[c].pc = "hello"
    /\ sess' = [sess EXCEPT ![c].pc = "rem_r"]
    /\ UNCHANGED <<rvars, svars, hvars, presence, acl, probe, inb, peer>>

\* The user_joined event, then the four tasks are created.
E_Joined(c) ==
    /\ sess[c].pc = "join"
    /\ XAddUpTo(SessionEvents, c,
           SessionEvent("user_joined", c, sess[c].user, [username |-> "u"]))
    /\ sess' = [sess EXCEPT ![c].pc = "run", ![c].auth = "check"]
    /\ UNCHANGED <<rvars, wvars, fwd, ptr, sock, pcount, presence, acl, probe, inb, peer>>

\* periodic_auth_check: check_pad_access denies.  (When it grants, the
\* task sleeps a second and checks again: no change of state.)
P_Check(c) ==
    /\ sess[c].pc = "run"
    /\ sess[c].auth = "check"
    /\ ~PadAccess(acl, sess[c].user)
    /\ sess' = [sess EXCEPT ![c].auth = "force"]
    /\ UNCHANGED <<rvars, svars, hvars, presence, acl, probe, inb, peer>>

\* ... the force_disconnect event is published ...
\* (P_Force_silent: a check that would go on to close the socket without
\* publishing.)
P_Force_silent(c) ==
    /\ sess[c].pc = "run"
    /\ sess[c].auth = "force"
    /\ sess' = [sess EXCEPT ![c].auth = "close"]
    /\ UNCHANGED <<rvars, svars, hvars, presence, acl, probe, inb, peer>>

P_Force(c) ==
    /\ sess[c].pc = "run"
    /\ sess[c].auth = "force"
    /\ XAddUpTo(SessionEvents, c,
           SessionEvent("force_disconnect", c, sess[c].user,
                        [reason |-> "Access revoked"]))
    /\ sess' = [sess EXCEPT ![c].auth = "close"]
    /\ UNCHANGED <<rvars, wvars, fwd, ptr, sock, pcount, presence, acl, probe, inb, peer>>

\* ... and the socket is closed with code 4003; the task ends.
P_Close(c) ==
    /\ sess[c].pc = "run"
    /\ sess[c].auth = "close"
    /\ sess' = [sess EXCEPT ![c].auth = "done", ![c].code = "4003"]
    /\ UNCHANGED <<rvars, svars, hvars, presence, acl, probe, inb, peer>>

\* asyncio.wait returns because the access check has ended.
E_AuthDone(c) ==
    /\ sess[c].pc = "run"
    /\ sess[c].auth = "done"
    /\ sess' = [sess EXCEPT ![c].pc = "rem_r"]
    /\ UNCHANGED <<rvars, svars, hvars, presence, acl, probe, inb, peer>>

\* asyncio.wait returns because another task has ended (the client has
\* closed the socket): the access check is cancelled where it stands.
E_Disconnect(c) ==
    /\ sess[c].pc = "run"
    /\ sess[c].auth # "done"
    /\ sess' = [sess EXCEPT ![c].pc = "rem_r", ![c].auth = "cancelled"]
    /\ UNCHANGED <<rvars, svars, hvars, presence, acl, probe, inb, peer>>

\* The finally block.  remove_connection: hget of the user's entry ...
R_Read(c) ==
    /\ sess[c].pc = "rem_r"
    /\ sess' = [sess EXCEPT ![c].pc = IF presence[sess[c].user] # <<>>
                                      THEN "rem_w" ELSE "left",
                            ![c].held = presence[sess[c].user]]
    /\ UNCHANGED <<rvars, svars, hvars, presence, acl, probe, inb, peer>>

\* ... and hset of the entry without the connection id, or hdel when no
\* connection is left in it.
R_Write(c) ==
    /\ sess[c].pc = "rem_w"
    /\ presence' = [presence EXCEPT ![sess[c].user] =
                       remove_connection(sess[c].held, c)]
    /\ sess' = [sess EXCEPT ![c].pc = "left", ![c].held = <<>>]
    /\ UNCHANGED <<rvars, svars, hvars, acl, probe, inb, peer>>

\* The user_left event; the socket is closed if it is not yet.
E_Left(c) ==
    /\ sess[c].pc = "left"
    /\ XAddUpTo(SessionEvents, c,
           SessionEvent("user_left", c, sess[c].user, [empty |-> TRUE]))
    /\ sess' = [sess EXCEPT ![c].pc = "closed",
                            ![c].code = IF @ = "none" THEN "closed" ELSE @]
    /\ UNCHANGED <<rvars, wvars, fwd, ptr, sock, pcount, presence, acl, probe, inb, peer>>

\* The owner takes a user off the whitelist.
Revoke ==
    /\ \E u \in acl.whitelist : acl' = remove_from_whitelist(acl, u)
    /\ UNCHANGED <<rvars, svars, hvars, sess, presence, probe, inb, peer>>

EndpointStep(c) ==
    \/ E_Auth(c)
    \/ E_Access(c)
    \/ A_Read(c)
    \/ A_Write(c)
    \/ E_Hello(c)
    \/ E_Joined(c)
    \/ E_AuthDone(c)
    \/ R_Read(c)
    \/ R_Write(c)
    \/ E_Left(c)

AuthCheckStep(c) ==
    \/ P_Check(c)
    \/ P_Force(c)
    \/ P_Close(c)

SessionNext ==
    \/ \E c \in Conns : EndpointStep(c)
    \/ \E c \in Conns : AuthCheckStep(c)
    \/ \E c \in Conns : E_HelloFails(c)
    \/ \E c \in Conns : E_Disconnect(c)
    \/ Revoke

SpecSession == SessionInit /\ [][SessionNext]_vars

\* The event loop runs every task that is ready, and Redis answers.
SessionFairness ==
    \A c \in Conns : WF_vars(EndpointStep(c)) /\ WF_vars(AuthCheckStep(c))

SessionLive == SpecSession /\ SessionFairness

(***************************************************************************)
(* SpecAccess: Pad.can_access applied to every sharing setting the owner   *)
(* can give the pad and to every user.                                     *)
(***************************************************************************)
SetSharingPolicy ==
    /\ \E policy \in Policies : acl' = set_sharing_policy(acl, policy)
    /\ UNCHANGED <<rvars, svars, hvars, sess, presence, probe, inb, peer>>

AddToWhitelist ==
    /\ \E u \in AllUsers : acl' = add_to_whitelist(acl, u)
    /\ UNCHANGED <<rvars, svars, hvars, sess, presence, probe, inb, peer>>

\* pad.can_access(user_id)
CanAccess ==
    /\ \E u \in AllUsers :
           probe' = [called |-> TRUE, pad |-> acl, user |-> u,
                     result |-> can_access(acl, u)]
    /\ UNCHANGED <<rvars, svars, hvars, sess, presence, acl, inb, peer>>

AccessNext == SetSharingPolicy \/ AddToWhitelist \/ Revoke \/ CanAccess

SpecAccess == Init /\ [][AccessNext]_vars

(***************************************************************************)
(* Claims about the reconciliation function.                               *)
(***************************************************************************)
VersionOf(e) == Get(e, "version", 0)
NonceOf(e) == Get(e, "versionNonce", 0)

\* The discard rule as the specification words it: x is kept over y.
Beats(x, y) ==
    \/ VersionOf(y) < VersionOf(x)
    \/ VersionOf(y) = VersionOf(x) /\ NonceOf(y) > NonceOf(x)

\* C2: _should_discard_client_element(s, c) is true exactly when s exists
\* and c.version < s.version, or the versions are equal and
\* c.versionNonce > s.versionNonce (a missing field read as 0); the client
\* element is accepted otherwise, and whenever there is no server element.
C2_DiscardRule ==
    rphase = "cmp" =>
        LET s == MapGet(server_elements, prop_a.id)
        IN  discard_out = (s # NoElem /\ Beats(s, prop_a))

\* C2 witness: a version tie decided by the nonce, the client discarded.
C2_Witness ==
    /\ rphase = "cmp"
    /\ MapGet(server_elements, prop_a.id) # NoElem
    /\ VersionOf(MapGet(server_elements, prop_a.id)) = VersionOf(prop_a)
    /\ NonceOf(MapGet(server_elements, prop_a.id)) < NonceOf(prop_a)
    /\ discard_out

\* C3: for proposals a and b of one element id that are identical or
\* differ in (version, versionNonce), reconciling a then b gives the same
\* list as b then a, and the element that survives is the one the discard
\* rule prefers: higher version, then lower versionNonce.
SameKey(x, y) == VersionOf(x) = VersionOf(y) /\ NonceOf(x) = NonceOf(y)

C3_OrderIndependent ==
    (rphase = "out" /\ (prop_a = prop_b \/ ~SameKey(prop_a, prop_b))) =>
        LET s == MapGet(server_elements, prop_a.id)
            best == IF Beats(prop_b, prop_a) THEN prop_b ELSE prop_a
            survivor == IF s # NoElem /\ Beats(s, best) THEN s ELSE best
        IN  /\ out_ab = out_ba
            /\ MapGet(out_ab, prop_a.id) = survivor

\* C3 witness: a version tie between two different proposals, both of
\* which beat the server's element; the lower nonce survived.
C3_Witness ==
    /\ rphase = "out"
    /\ prop_a # prop_b
    /\ VersionOf(prop_a) = VersionOf(prop_b)
    /\ NonceOf(prop_a) > NonceOf(prop_b)
    /\ MapGet(server_elements, prop_a.id) # NoElem
    /\ Beats(prop_a, MapGet(server_elements, prop_a.id))
    /\ Len(server_elements) = 2
    /\ MapGet(out_ab, prop_a.id) = prop_b
    /\ MapGet(out_ba, prop_a.id) = prop_b

(***************************************************************************)
(* Claims about the reconciler's tasks.                                    *)
(***************************************************************************)
SceneIdx ==
    {i \in 1..Len(stream) :
        stream[i].type = "scene_update" /\ "data" \in DOMAIN stream[i]}

Proposed == {stream[i].data.elements[1] : i \in SceneIdx}

DistinctProposals ==
    \A i, j \in SceneIdx :
        i # j => ~SameKey(stream[i].data.elements[1], stream[j].data.elements[1])

IsWinner(p) == \A q \in Proposed \ {p} : Beats(p, q)

\* C1: the proposals published for an element having pairwise distinct
\* (version, versionNonce) and all of them published to a pad in service,
\* when a save that began after every event had been consumed completes
\* and no event has been published since, the cache and the Pad Store
\* both hold the proposal that beats all others.
C1_Convergence ==
    [][\A s \in Tasks :
          ( /\ stask[s].pc = "cache_w"
            /\ stask[s].quiet
            /\ stask'[s].pc = "sleep"
            /\ SceneIdx # {}
            /\ SceneIdx \subseteq hist.watched
            /\ DistinctProposals )
          => \E p \in Proposed :
                 /\ IsWinner(p)
                 /\ cache'.data.elements = <<p>>
                 /\ store'.data.elements = <<p>>]_vars

\* C4: a pad has at most one running consumer task at a time.
C4_SingleConsumer == Cardinality(Running(ctask)) <= 1

\* A request handler's Pad.get_by_id, and so ensure_worker, returns.
EnsureWorkerReturns ==
    /\ env'.crashes = env.crashes
    /\ caller'.pc = "idle"
    /\ \/ caller.pc = "ensure_w"
       \/ caller.pc = "idle" /\ env'.calls = env.calls + 1

\* C5: when ensure_worker returns in the process whose worker id is W, a
\* process in which stop_processing_pad has not been called, the cache
\* record names W, the pad is in W's active set and a consumer task is
\* running.
C5_EnsureWorkerOwns ==
    [][(EnsureWorkerReturns /\ env'.stops = 0) =>
          /\ cache'.cached
          /\ cache'.worker_id = worker'.worker_id
          /\ PadId \in worker'.active_pads
          /\ Running(ctask') # {}]_vars

\* C6: no scene_update appended between two reads of the consumer is
\* skipped: when the consumer sends an XREAD of its main loop, every
\* watched scene_update at or before the position the read starts after
\* has been passed to _process_message.
C6_NoSkippedEvent ==
    \A t \in Tasks :
        (ctask[t].pc = "xread" /\ ~ctask[t].draining) =>
            \A i \in hist.watched \cap SceneIdx :
                i <= ctask[t].cursor => i \in hist.processed

\* C7: when a graceful stop_processing_pad returns, the consumer task
\* having ended within the 10 s it is given, the Pad Store's scene data
\* equals the cached scene data.
C7_StopSavesAll ==
    [][( /\ stopper.pc \in {"rel_read", "rel_write"}
         /\ stopper.graceful
         /\ ~stopper.timed_out
         /\ stopper'.pc = "idle" )
       => (cache'.cached /\ cache'.data = store'.data)]_vars

\* C8: while the pad stays active and once no event is appended any more,
\* a periodic save runs and from then on the Pad Store's scene data equals
\* the cached scene data.
C8_Persistence ==
    <>[](PadId \in worker.active_pads =>
            (cache.cached /\ cache.data = store.data))

\* C8 witness: every event has been published and consumed, the cache
\* holds an element, and the store has caught up with it.
C8_Witness ==
    /\ PadId \in worker.active_pads
    /\ Len(stream) = MaxStopEvents
    /\ AllConsumed
    /\ cache.cached
    /\ cache.data.elements # <<>>
    /\ cache.data = store.data

(***************************************************************************)
(* Claims about the hub's forwarders.                                      *)
(***************************************************************************)
\* C9: nothing a connection published, on the stream or on the pointer
\* channel, is ever sent to that connection's own socket.
C9_NoEcho == \A c \in Conns : \A m \in sock[c] : m.by # c

\* C9 witness: a connection whose durable forwarder has passed over an
\* entry the connection published itself, and which has been sent a stream
\* entry and a pointer update of the other connection.
C9_Witness ==
    \E c \in Conns :
        /\ fwd[c].last_id # Dollar
        /\ \E i \in 1..fwd[c].last_id :
               meta[i].by = c /\ stream[i].type = "scene_update"
        /\ \E m \in sock[c] : m.via = "stream"
        /\ \E m \in sock[c] : m.via = "pointer"

\* C10: no entry appended by another connection between two reads of d's
\* durable forwarder is skipped: when the forwarder sends an XREAD, every
\* entry of another connection appended after its first XREAD, and at or
\* before the position this read starts after, has been sent to d.
C10_NoSkippedForward ==
    \A d \in Conns :
        fwd[d].pc = "xread" =>
            \A i \in 1..Len(stream) :
                (d \in meta[i].reading /\ meta[i].by # d /\ i <= fwd[d].cursor)
                    => [via |-> "stream", n |-> i, by |-> meta[i].by] \in sock[d]

(***************************************************************************)
(* Claims about the order of delivery.                                     *)
(***************************************************************************)
\* C11: the frames a connection sends other than pointer updates are
\* appended to the stream in the order they were sent, each at the end of
\* the stream with the entries before it left in place, and a peer's
\* socket is never sent an entry of a publisher after a later entry of
\* that publisher.
C11_InOrder ==
    [][ /\ Len(stream') >= Len(stream)
        /\ SubSeq(stream', 1, Len(stream)) = stream
        /\ SubSeq(meta', 1, Len(meta)) = meta
        /\ \A d \in Conns :
               \A m \in sock'[d] \ sock[d] :
                   m.via = "stream" =>
                       \A o \in sock[d] :
                           (o.via = "stream" /\ o.by = m.by) => o.n < m.n ]_vars

\* C11 witness: a peer that has been sent two scene updates of one
\* connection.
C11_Witness ==
    \E d \in Conns :
        \E m1, m2 \in sock[d] :
            /\ m1.via = "stream" /\ m2.via = "stream"
            /\ m1.by = m2.by
            /\ m1.n < m2.n
            /\ stream[m1.n].type = "scene_update"
            /\ stream[m2.n].type = "scene_update"

(***************************************************************************)
(* Claims about presence and the life of a connection.                     *)
(***************************************************************************)
\* The connections that have been registered and not yet torn down: their
\* add_connection has returned, their remove_connection has not begun.
Live(u) ==
    {c \in Conns : sess[c].user = u /\ sess[c].pc \in {"hello", "join", "run"}}

\* No add_connection or remove_connection call is under way.
Quiescent == \A c \in Conns : sess[c].pc \notin {"add_r", "add_w", "rem_r", "rem_w"}

\* C12: once every add_connection and remove_connection call has
\* completed, the presence hash holds exactly the users with a live
\* connection, each with exactly its live connection ids.
C12_PresenceExact ==
    Quiescent => \A u \in AllUsers : Ids(presence[u]) = Live(u)

\* The stream entries of a type published for connection c.
EventsOf(s, ty, c) ==
    {i \in 1..Len(s) : s[i].type = ty /\ s[i].connection_id = c}

\* C13: when the user_joined of an accepted connection is published, its
\* connection id is in the presence hash; and when the teardown of a
\* connection that had published its user_joined publishes the user_left,
\* the id is no longer in the presence hash, this user_left is the only
\* one of the connection and it follows the connection's user_joined.
C13_Lifecycle ==
    [][\A c \in Conns :
          /\ (sess[c].pc = "join" /\ sess'[c].pc = "run")
                => c \in Ids(presence'[sess[c].user])
          /\ ( /\ sess[c].pc = "left" /\ sess'[c].pc = "closed"
               /\ EventsOf(stream, "user_joined", c) # {} )
                => /\ c \notin Ids(presence'[sess[c].user])
                   /\ Cardinality(EventsOf(stream', "user_left", c)) = 1
                   /\ \A i \in EventsOf(stream', "user_joined", c) :
                          \A j \in EventsOf(stream', "user_left", c) : i < j]_vars

(***************************************************************************)
(* Claims about appState updates.                                          *)
(***************************************************************************)
\* The consumer task t is handling an appstate_update.
AppMsg(t) ==
    /\ ctask[t].batch # <<>>
    /\ stream[Head(ctask[t].batch)].type = "appstate_update"

\* Everything in pad.data but the appState entry of user_id.
Outside(data, user_id) ==
    [fields |-> [k \in DOMAIN data \ {"appState"} |-> data[k]],
     slots |-> {p \in Get(data, "appState", {}) : p[1] # user_id}]

\* The cached appState of a user, empty when there is none.
CachedSlot(c, user_id) == IF c.cached THEN SlotOf(c.data, user_id) ELSE {}

\* C14: processing an appstate_update stamped with user u leaves the
\* cached appState of every other user and every other field of the
\* cached pad data (the elements) as they were: what the handler is about
\* to write differs from what its Pad.get_by_id read only in the entry of
\* u, and that is what it writes.
C14_Isolation ==
    [][\A t \in Tasks :
          AppMsg(t) =>
              LET u == stream[Head(ctask[t].batch)].user_id
              IN  /\ (ctask[t].pc = "msg" /\ ctask'[t].pc = "cache_w")
                        => Outside(ctask'[t].pad.data, u) = Outside(cache.data, u)
                  /\ (ctask[t].pc = "ensure_w" /\ ctask'[t].pc = "cache_w")
                        => Outside(ctask'[t].pad.data, u) = Outside(cache'.data, u)
                  /\ (ctask[t].pc = "cache_w" /\ ctask'[t].pc # "cache_w")
                        => cache'.data = ctask[t].pad.data]_vars

\* C14 witness: both users have a cached appState, next to the element.
C14_Witness ==
    /\ cache.cached
    /\ cache.data.elements # <<>>
    /\ SlotOf(cache.data, "u1") # {}
    /\ SlotOf(cache.data, "u2") # {}

\* C15: when the consumer has processed an appstate_update of user u
\* carrying the appState A, the cached appState of u is A.
C15_SlotReplaced ==
    [][\A t \in Tasks :
          AppMsg(t) =>
              LET msg == stream[Head(ctask[t].batch)]
              IN  ( \/ ctask[t].pc = "cache_w" /\ ctask'[t].pc # "cache_w"
                    \/ ctask[t].pc = "msg" /\ ~Handled(msg)
                          /\ ctask'[t] # ctask[t] )
                  => CachedSlot(cache', msg.user_id) = msg.data.appState]_vars

\* The type and the payload of a frame.
Payload(f) == <<Get(f, "type", "unknown_client_message"), Get(f, "data", NoData)>>

\* Frames with the same type and data arriving on a connection give the
\* same event, whatever else they hold.
EnvelopeIgnored ==
    \A c \in Conns : \A f, g \in PlainAppFrames \cup AppFrames :
        Payload(f) = Payload(g) =>
            StreamEntry(processed_message(UserOf[c], c, f))
                = StreamEntry(processed_message(UserOf[c], c, g))

\* C16: every published event carries the user id, the pad id and the
\* connection id of the connection it arrived on and the server's
\* timestamp; frames with the same type and data arriving on a connection
\* give the same event, whatever else they hold; and every cached appState
\* of a user was sent on a connection of that user.
C16_ServerStamped ==
    /\ \A i \in 1..Len(stream) :
           /\ stream[i].user_id = UserOf[meta[i].by]
           /\ stream[i].connection_id = meta[i].by
           /\ stream[i].pad_id = PadId
           /\ stream[i].timestamp = ServerNow
    /\ EnvelopeIgnored
    /\ cache.cached =>
           \A p \in Get(cache.data, "appState", {}) :
               \E i \in 1..Len(stream) :
                   /\ UserOf[meta[i].by] = p[1]
                   /\ stream[i].type = "appstate_update"
                   /\ stream[i].data.appState = p[2]

\* C16 witness: an appState sent in a frame that names u3 as its sender
\* has been processed and is cached for the user of the connection it
\* arrived on.
C16_Witness ==
    /\ cache.cached
    /\ \E i \in hist.processed :
           /\ stream[i].data.appState # {}
           /\ SlotOf(cache.data, UserOf[meta[i].by]) = stream[i].data.appState
    /\ SlotOf(cache.data, "u3") = {}

(***************************************************************************)
(* Claims about authentication and access.                                 *)
(***************************************************************************)
\* The access rule as the specification words it.
MayAccess(pad, u) ==
    \/ u = pad.owner_id
    \/ pad.sharing_policy = "public"
    \/ pad.sharing_policy = "whitelist" /\ u \in pad.whitelist

\* C17: a request without an authenticated user is closed with code 4001
\* and one whose user the access check denies is closed, both before the
\* connection is accepted; such a connection stays closed, is never added
\* to presence, never publishes an event and is never sent anything.
C17_RejectedBeforeAccept ==
    /\ [](\A c \in Conns :
            /\ (sess[c].pc # "new" /\ sess[c].user = PyNone)
                  => (sess[c].pc = "rejected" /\ sess[c].code = "4001")
            /\ sess[c].pc = "rejected"
                  => /\ \A u \in AllUsers : c \notin Ids(presence[u])
                     /\ \A i \in 1..Len(stream) : stream[i].connection_id # c
                     /\ sock[c] = {}
                     /\ sess[c].auth = "off")
    /\ [][\A c \in Conns :
            /\ (sess[c].pc = "access" /\ sess'[c].pc # "access"
                   /\ ~MayAccess(acl, sess[c].user))
                  => (sess'[c].pc = "rejected" /\ sess'[c].code # "none")
            /\ sess[c].pc = "rejected" => sess'[c] = sess[c]]_vars

\* C17 witness: a request of a user taken off the whitelist has been
\* closed at the access check while the other connection is in service.
C17_Witness ==
    \E c, d \in Conns :
        /\ sess[c].pc = "rejected"
        /\ sess[c].code = "status_code"
        /\ sess[d].pc = "run"

\* C18: a connection closed with code 4003 has had a force_disconnect
\* event published before, stamped with its user and its connection id;
\* the connection's user_left event follows its force_disconnect event;
\* and under fair scheduling a connection in service whose user has lost
\* access is eventually closed.
C18_ForceDisconnect ==
    /\ [](\A c \in Conns :
            /\ sess[c].code = "4003"
                  => \E i \in EventsOf(stream, "force_disconnect", c) :
                         stream[i].user_id = sess[c].user
            /\ \A i \in EventsOf(stream, "force_disconnect", c) :
                   \A j \in EventsOf(stream, "user_left", c) : i < j)
    /\ \A c \in Conns :
           (sess[c].pc = "run" /\ ~MayAccess(acl, sess[c].user))
               ~> sess[c].pc = "closed"

\* C18 witness: a connection closed with code 4003 whose teardown has
\* published its user_left.
C18_Witness ==
    \E c \in Conns :
        /\ sess[c].pc = "closed"
        /\ sess[c].code = "4003"
        /\ EventsOf(stream, "force_disconnect", c) # {}
        /\ EventsOf(stream, "user_left", c) # {}

\* C19: Pad.can_access(user) is true exactly when the user is the owner,
\* or the sharing policy is public, or it is whitelist and the user is on
\* the whitelist.
C19_AccessRule ==
    probe.called => (probe.result <=> MayAccess(probe.pad, probe.user))

\* C19 witness: access granted by the whitelist alone, to a user who is
\* not the owner.
C19_Witness ==
    /\ probe.called
    /\ probe.result
    /\ probe.user # probe.pad.owner_id
    /\ probe.pad.sharing_policy = "whitelist"
    /\ probe.user \in probe.pad.whitelist

\* The pointer messages a step hands to the subscribers' inboxes.
Delivered(d) ==
    IF Len(ptr'[d].inbox) > Len(ptr[d].inbox)
    THEN {ptr'[d].inbox[Len(ptr'[d].inbox)]}
    ELSE {}

\* C20: a frame of type pointer_update is published on the pointer channel
\* and not appended to the stream; every other frame is appended to the
\* stream and not published on the pointer channel.
C20_Routing ==
    [][ /\ pcount' # pcount =>
              /\ stream' = stream
              /\ \A d \in Conns : \A m \in Delivered(d) : m.msg.type = "pointer_update"
        /\ stream' # stream =>
              /\ stream'[Len(stream')].type # "pointer_update"
              /\ pcount' = pcount
              /\ \A d \in Conns : Delivered(d) = {} ]_vars

\* C20 witness: a pointer update has reached a subscriber's socket and a
\* scene update is in the stream.
C20_Witness ==
    /\ \E c \in Conns : \E m \in sock[c] : m.via = "pointer"
    /\ \E i \in 1..Len(stream) : stream[i].type = "scene_update"

(***************************************************************************)
(* Claims about the pointer channel.                                       *)
(***************************************************************************)
\* C21: a pointer update is handed to a connection's pointer forwarder
\* only if the connection is subscribed to the pointer channel when the
\* update is published; a subscription starts with nothing in it; and
\* what the forwarder sends to its client is the update it was handed
\* first and has not yet dealt with.
C21_OnlyAfterSubscribe ==
    /\ [](\A d \in Conns : ptr[d].pc # "sub" => ptr[d].inbox = <<>>)
    /\ [][\A d \in Conns :
            /\ (pcount' # pcount /\ Len(ptr'[d].inbox) > Len(ptr[d].inbox))
                  => (ptr[d].pc = "sub" /\ ptr'[d].inbox[Len(ptr'[d].inbox)].n = pcount')
            /\ (ptr[d].pc # "sub" /\ ptr'[d].pc = "sub") => ptr'[d].inbox = <<>>
            /\ \A m \in sock'[d] \ sock[d] :
                   m.via = "pointer" =>
                       /\ ptr[d].inbox # <<>>
                       /\ m.n = Head(ptr[d].inbox).n
                       /\ ptr'[d].inbox = Tail(ptr[d].inbox)]_vars

\* C21 witness: the first pointer update of c was published before d had
\* subscribed and the second after; d has been sent the second and has
\* nothing more to receive.
C21_Witness ==
    \E c, d \in Conns :
        /\ c # d
        /\ pcount = 2
        /\ \E k \in 1..Len(ptr[c].inbox) :
               ptr[c].inbox[k].n = 1 /\ ptr[c].inbox[k].by = c
        /\ ptr[d].pc = "sub"
        /\ ptr[d].inbox = <<>>
        /\ \E m \in sock[d] : m.via = "pointer" /\ m.n = 2 /\ m.by = c
        /\ \A m \in sock[d] : m.via = "pointer" => m.n # 1

(***************************************************************************)
(* Claims about the frames clients send.                                   *)
(***************************************************************************)
\* The event types of the specification.
KnownTypes ==
    {"scene_update", "appstate_update", "user_joined", "user_left",
     "pointer_update", "connected", "error", "force_disconnect"}

\* A frame that is not valid JSON or whose type is not a known event type.
Rejected(f) ==
    \/ ~IsJsonDict(f)
    \/ Get(f, "type", "unknown_client_message") \notin KnownTypes

\* C22: when the inbound handler has dealt with a frame that is not valid
\* JSON or whose type is not a known event type, the sender has been sent
\* exactly one error frame, nothing has been appended to the stream or
\* published on the pointer channel, and the handler is receiving again.
C22_ErrorReply ==
    [][\A c \in Conns :
          (inb[c].pc = "handle" /\ inb'[c].pc # "handle" /\ Rejected(inb[c].frame))
             => /\ Cardinality(sock'[c] \ sock[c]) = 1
                /\ \A m \in sock'[c] \ sock[c] : m.via = "error"
                /\ stream' = stream
                /\ pcount' = pcount
                /\ ptr' = ptr
                /\ inb'[c].pc = "recv"]_vars

\* C24: no event of type connected is in the stream or on the pointer
\* channel.
C24_ConnectedNotRepublished ==
    /\ \A i \in 1..Len(stream) : stream[i].type # "connected"
    /\ \A d \in Conns :
           \A k \in 1..Len(ptr[d].inbox) : ptr[d].inbox[k].msg.type # "connected"

\* C23: a step in which a send to a connection's socket fails leaves the
\* forwarders of the other connections as they were, and the connection
\* whose send failed is eventually torn down.
C23_SendFailureTearsDown ==
    /\ [][\A c \in Conns :
            (inb'[c].failed /\ ~inb[c].failed)
                => \A d \in Conns \ {c} : fwd'[d] = fwd[d] /\ ptr'[d] = ptr[d]]_vars
    /\ \A c \in Conns : inb[c].failed ~> fwd[c].pc = "closed"

(***************************************************************************)
(* Claims about saving and stopping.                                       *)
(***************************************************************************)
\* C25: the cache write that ends a save, periodic or final, leaves the
\* cached scene data as it was.
C25_SaveKeepsCache ==
    [][cache.cached =>
          /\ \A s \in Tasks :
                 (stask[s].pc = "cache_w" /\ stask'[s].pc # "cache_w")
                     => cache'.data = cache.data
          /\ (stopper.pc = "save_cache" /\ stopper'.pc # "save_cache")
                 => cache'.data = cache.data]_vars

\* C26: the entries a consumer task passes to _process_message were
\* appended after the task was created, and each has a higher position in
\* the stream than the one the task passed before it, in the main loop
\* and in the final drain.
C26_InOrderOnce ==
    [][\A t \in Tasks :
          (ctask'[t].seen # ctask[t].seen /\ ctask'[t].seen # 0)
             => /\ ctask'[t].seen > ctask[t].seen
                /\ ctask'[t].seen > ctask[t].born
                /\ ctask'[t].born = ctask[t].born]_vars

\* C26 witness: a task created when the stream held an event has passed
\* one event to _process_message in its main loop and is passing another
\* in its final drain.
C26_Witness ==
    \E t \in Tasks :
        /\ ctask[t].born > 0
        /\ ctask[t].draining
        /\ ctask[t].last_id # Dollar
        /\ ctask[t].seen > ctask[t].last_id

\* C27: in a graceful stop_processing_pad the pad has left the active set
\* and the periodic save task is gone when the final save begins; the
\* final save has run and no consumer task is running when the release
\* of the worker id begins; and the cache write that clears the worker id
\* finds no consumer task running.
C27_StopOrder ==
    [][/\ (stopper.pc = "idle" /\ stopper'.pc = "save_read")
             => (PadId \notin worker'.active_pads /\ worker'.save_task = 0)
       /\ (stopper'.graceful /\ stopper.pc # "rel_read" /\ stopper'.pc = "rel_read")
             => (stopper.pc \in {"save_cache", "waiting"} /\ Running(ctask') = {})
       /\ (stopper.graceful /\ stopper.pc = "rel_write" /\ stopper'.pc = "idle")
             => Running(ctask') = {}]_vars

\* C29: when a graceful stop_processing_pad returns, the pad is not in the
\* active set and has no running consumer task and no periodic save task.
C29_StopLeavesNothing ==
    [][( /\ stopper.pc \in {"rel_read", "rel_write"}
         /\ stopper.graceful
         /\ stopper'.pc = "idle"
         /\ env'.crashes = env.crashes )
       => /\ PadId \notin worker'.active_pads
          /\ Running(ctask') = {}
          /\ \A s \in Tasks : stask'[s].pc = "none"]_vars

\* C28: the cache write that ends _release_pad_worker changes the record
\* only if the record names this worker's id when the write is made; a
\* record that names another worker is left as it is.
C28_ReleaseOwnOnly ==
    [][(stopper.pc = "rel_write" /\ stopper'.pc = "idle" /\ cache' # cache)
          => (cache.cached /\ cache.worker_id = worker.worker_id)]_vars

\* The scene_update a consumer task has in hand.
SceneMsg(t) ==
    /\ ctask[t].batch # <<>>
    /\ stream[Head(ctask[t].batch)].type = "scene_update"

\* The files map Pad.get_by_id would return: the cached one, or the
\* stored one when the pad is not cached.
FilesOf(c, st) ==
    IF c.cached THEN Get(c.data, "files", {}) ELSE Get(st.data, "files", {})

\* C30: when the consumer has finished a scene_update, the pad's files
\* map is the client's map if the update carried one (replaced as a whole
\* when it differed, left alone when it was the same), and the map it
\* was before if the update carried elements only.
C30_FilesReplaced ==
    [][\A t \in Tasks :
          SceneMsg(t) =>
              LET msg == stream[Head(ctask[t].batch)]
              IN  ( \/ ctask[t].pc = "cache_w" /\ ctask'[t].pc # "cache_w"
                    \/ ctask[t].pc \in {"msg", "ensure_w"}
                          /\ ctask'[t].pc \notin {"cache_w", "ensure_w"}
                          /\ ctask'[t] # ctask[t] )
                  => FilesOf(cache', store') =
                        IF "files" \in DOMAIN msg.data THEN msg.data.files
                        ELSE FilesOf(cache, store)]_vars

(***************************************************************************)
(* Claims about _reconcile_elements on whole payloads.                     *)
(***************************************************************************)
\* The ids of a list of elements that all have one.
IdsOf(elements) == {elements[i].id : i \in 1..Len(elements)}

\* The non-empty ids of a client payload.
ClientIds(client_elements) ==
    {Get(client_elements[i], "id", PyNone) : i \in 1..Len(client_elements)}
        \ {PyNone, ""}

C32_FirstOccurrence ==
    merge.pc = "done" => merge.out = merge.first

\* C32 witness: the payload held e1 twice, the second time in a version
\* that beats the first; the server had no e1, and the result holds the
\* first.
C32_Witness ==
    /\ merge.pc = "done"
    /\ Len(merge.client_elements) = 2
    /\ MapGet(server_elements, "e1") = NoElem
    /\ Get(merge.client_elements[1], "id", PyNone) = "e1"
    /\ Get(merge.client_elements[2], "id", PyNone) = "e1"
    /\ Beats(merge.client_elements[2], merge.client_elements[1])
    /\ MapGet(merge.out.elements, "e1") = merge.client_elements[1]

\* The index an element is ordered by: the empty string when it has none.
IndexOf(e) == IF "index" \in DOMAIN e /\ e.index # PyNone THEN e.index ELSE ""

\* (index, id) of x does not come after that of y.
NotAfter(x, y) ==
    \/ StrLess(IndexOf(x), IndexOf(y))
    \/ IndexOf(x) = IndexOf(y) /\ ~StrLess(y.id, x.id)

\* C33: the returned list is in non-decreasing order of (index, id), an
\* element without index or with an empty one ordered as if its index
\* were the empty string; and the list is the same when a payload without
\* repeated ids is sent in the opposite order.
C33_Sorted ==
    merge.pc = "done" =>
        LET out == merge.out.elements
            payload == merge.client_elements
            with_id == {i \in 1..Len(payload) :
                           Truthy(Get(payload[i], "id", PyNone))}
        IN  /\ \A i, j \in 1..Len(out) : i < j => NotAfter(out[i], out[j])
            /\ Cardinality(ClientIds(payload)) = Cardinality(with_id)
                   => merge.rev.elements = out

\* C33 witness: e2 has no index and e1 has one; e2 comes first although
\* its id is the greater.
C33_Witness ==
    /\ merge.pc = "done"
    /\ Len(merge.out.elements) = 2
    /\ merge.out.elements[1].id = "e2"
    /\ "index" \notin DOMAIN merge.out.elements[1]
    /\ merge.out.elements[2].id = "e1"

\* C39: when every element of the payload has an id, reconciling the
\* payload again on the list the call returned gives that list back and
\* reports no change.
C39_Idempotent ==
    (merge.pc = "done"
        /\ \A i \in 1..Len(merge.client_elements) :
               Truthy(Get(merge.client_elements[i], "id", PyNone)))
    => merge.again = [elements |-> merge.out.elements, has_changes |-> FALSE]

\* C39 witness: the first call accepted a client element over the
\* server's, and the second call changed nothing.
C39_Witness ==
    /\ merge.pc = "done"
    /\ Len(merge.client_elements) = 2
    /\ ClientIds(merge.client_elements) = {"e1", "e2"}
    /\ IdsOf(server_elements) = {"e1", "e2"}
    /\ merge.out.has_changes
    /\ merge.out.elements # server_elements
    /\ ~merge.again.has_changes

(***************************************************************************)
(* Claims about the cache writes of handle_scene_update.                   *)
(***************************************************************************)
\* The client's files map is non-empty and differs from the pad's.
FilesReplaced(pad, msg) ==
    LET client_files == Get(msg.data, "files", {})
    IN  client_files # {} /\ client_files # Get(pad.data, "files", {})

\* A client element (the first of its id) is new, or wins against the
\* pad's element of that id and differs from it.
ElementAccepted(pad, msg) ==
    LET client_elements == Get(msg.data, "elements", <<>>)
        server == Get(pad.data, "elements", <<>>)
    IN  \E i \in 1..Len(client_elements) :
            LET c == client_elements[i]
                s == MapGet(server, Get(c, "id", PyNone))
            IN  /\ Truthy(Get(c, "id", PyNone))
                /\ \A j \in 1..(i - 1) :
                       Get(client_elements[j], "id", PyNone) # c.id
                /\ \/ s = NoElem
                   \/ ~Beats(s, c) /\ c # s

\* The pad Pad.get_by_id hands to the handler of task t.
PadRead(t) ==
    IF ctask[t].pc = "ensure_w" THEN ctask[t].pad
    ELSE GetByIdRead(cache, store, worker, ctask, stask).pad

\* The handler of task t goes on to its pad.cache() call ...
HandlerWrites(t) ==
    /\ SceneMsg(t)
    /\ ctask[t].pc \in {"msg", "ensure_w"}
    /\ ctask'[t].pc = "cache_w"

\* ... or returns without it.
HandlerSkips(t) ==
    /\ SceneMsg(t)
    /\ ctask[t].pc \in {"msg", "ensure_w"}
    /\ ctask'[t].pc \notin {"cache_w", "ensure_w"}
    /\ ctask'[t] # ctask[t]

\* C34 as stated: the handler writes the cache exactly when the files map
\* was replaced or a client element was accepted and differs (or is new);
\* otherwise no cache write is made and the cached record is unchanged.
C34_WriteIffChanged ==
    [][\A t \in Tasks :
          LET msg == stream[Head(ctask[t].batch)]
          IN  /\ HandlerWrites(t) =>
                     (FilesReplaced(PadRead(t), msg) \/ ElementAccepted(PadRead(t), msg))
              /\ HandlerSkips(t) =>
                     /\ ~FilesReplaced(PadRead(t), msg)
                     /\ ~ElementAccepted(PadRead(t), msg)
                     /\ cache' = cache]_vars

\* C34 amended: the handler calls pad.cache() exactly when the files map
\* was replaced or a client element was accepted and differs (or is new);
\* otherwise the cached record is unchanged if Pad.get_by_id found the pad
\* cached with a worker, and else holds what Pad.get_by_id wrote: the
\* scene data as read, unchanged, under this worker's id.
C34_WriteIffChanged_amended ==
    [][\A t \in Tasks :
          LET msg == stream[Head(ctask[t].batch)]
          IN  /\ HandlerWrites(t) =>
                     (FilesReplaced(PadRead(t), msg) \/ ElementAccepted(PadRead(t), msg))
              /\ HandlerSkips(t) =>
                     /\ ~FilesReplaced(PadRead(t), msg)
                     /\ ~ElementAccepted(PadRead(t), msg)
                     /\ IF ctask[t].pc = "msg"
                        THEN cache' = cache
                        ELSE /\ cache' = CacheRecord(ctask[t].pad)
                             /\ cache.cached => cache'.data = cache.data]_vars

\* C34 witness: an update whose element loses against the cached one and
\* an update with a new files map have both been processed; the cache
\* holds the new files and the element it had.
C34_Witness ==
    /\ cache.cached
    /\ FilesOf(cache, store) = {<<"f1", 1>>, <<"f2", 1>>}
    /\ cache.data.elements = store.data.elements
    /\ \E i, j \in hist.processed :
          /\ i < j
          /\ stream[i].data = [files |-> {<<"f1", 1>>, <<"f2", 1>>}]
          /\ stream[j].data = [elements |-> <<StaleElement>>]
    /\ \A t \in Tasks : ctask[t].pc \notin {"msg", "ensure_w", "cache_w"}

(***************************************************************************)
(* Claims about the events the consumer ignores.                           *)
(***************************************************************************)
\* An event that is no scene_update and no appstate_update, or that has
\* no data or empty data.
Ignorable(msg) ==
    \/ msg.type \notin {"scene_update", "appstate_update"}
    \/ "data" \notin DOMAIN msg
    \/ msg.data = EmptyDict

\* C35: a consumer task that has such an event in hand leaves the cache
\* record as it is; the record changes under a consumer's hands only for
\* a scene_update or an appstate_update that has data.
C35_OthersIgnored ==
    [][\A t \in Tasks :
          (ctask[t].batch # <<>> /\ ctask'[t] # ctask[t]
              /\ Ignorable(stream[Head(ctask[t].batch)]))
          => /\ cache' = cache
             /\ ctask'[t].pc \notin {"ensure_w", "cache_w"}]_vars

\* C35 witness: an event of a client-invented type that carries a whole
\* scene has been processed with the pad cached, and so has a user_left
\* event; the cache holds the stored scene.
C35_Witness ==
    /\ cache.cached
    /\ cache.data = store.data
    /\ \E i, j \in hist.processed :
          /\ stream[i].type = "bogus" /\ stream[i].data = FullScene
          /\ stream[j].type = "user_left"
    /\ \A t \in Tasks : ctask[t].pc \notin {"msg", "ensure_w", "cache_w"}

(***************************************************************************)
(* Claims about exceptions in the consumer's loop.                         *)
(***************************************************************************)
\* The task is in its main loop.
InMainLoop(tk) == tk.pc \in {"loop", "xread", "msg", "ensure_w", "cache_w"} /\ ~tk.draining

\* C36: when the processing of a message raises, the task's cursor moves
\* to that message and the task goes on with the next message of the
\* batch, or reads again; when xread raises, the task keeps its cursor and
\* goes back to the while test; and a task in its main loop does not end
\* and the pad stays in the active set.
C36_LoopSurvives ==
    [][\A t \in Tasks :
          InMainLoop(ctask[t]) =>
              /\ ctask'[t].pc \notin {"none", "exit", "done"}
              /\ PadId \in worker.active_pads => PadId \in worker'.active_pads
              /\ ctask'[t].raised # ctask[t].raised =>
                     LET i == Head(ctask[t].batch)
                         rest == Tail(ctask[t].batch)
                     IN  /\ ctask'[t].last_id = i
                         /\ ctask'[t].batch = rest
                         /\ ctask'[t].pc = IF rest # <<>> THEN "msg" ELSE "loop"
              /\ ctask'[t].read_raised # ctask[t].read_raised =>
                     /\ ctask'[t].last_id = ctask[t].last_id
                     /\ ctask'[t].pc = "loop"]_vars

\* C36 witness: the processing of the first update raised and a read
\* raised; the task went on, and the second update, processed by the same
\* task, is in the cache.
C36_Witness ==
    \E t \in Tasks :
        /\ ctask[t].raised = {1}
        /\ ctask[t].read_raised > 0
        /\ ctask[t].seen = 2
        /\ ctask[t].pc = "xread"
        /\ PadId \in worker.active_pads
        /\ stream[1].data = [elements |-> <<FilesElement>>]
        /\ stream[2].data = [files |-> {<<"f1", 1>>, <<"f2", 1>>}]
        /\ cache.cached
        /\ cache.data.elements = store.data.elements
        /\ FilesOf(cache, store) = {<<"f1", 1>>, <<"f2", 1>>}

C38_ReadErrorRecovered ==
    [][\A c \in Conns :
          /\ (fwd[c].pc = "xread" /\ fwd'[c] # fwd[c]
                  /\ fwd'[c].pc \notin {"msg", "closed"})
                => fwd'[c].pc = "loop" /\ fwd'[c].last_id = fwd[c].last_id
          /\ fwd'[c].pc = "closed" => fwd[c].pc \in {"loop", "xread", "msg", "closed"}]_vars

============================================================================
